---- MODULE Spec2Model ----
(***************************************************************************)
(* Appointment scheduling engine of secretary_agent                         *)
(* (src/tools/calendar_tools.py): policy gate, conflict query, forward     *)
(* slot search, identity matching, confirmation offers and the Insert /    *)
(* Cancel / Move operations against the remote calendar.                   *)
(*                                                                         *)
(* Text values are sequences of one-character strings.  An instant is a    *)
(* number of minutes since 2025-12-01 00:00 Europe/Rome (a Monday); a day  *)
(* is a number of days since that date.  Each invocation of a tool is a    *)
(* process whose steps are its remote calls; the code between two remote   *)
(* calls runs inside the step of the call that precedes it.                *)
(***************************************************************************)
EXTENDS Integers, Sequences, FiniteSets, TLC

\* ------------------------------------------------------------------ bounds
\* Events the remote store may ever hold an id for (ids are never reused).
MaxEvents == 2
\* Confirmation offers the session layer holds at one time.
MaxOffers == 1

\* ------------------------------------------------------- program constants
\* a window of timedelta(hours=2)
DurationDoubled == 2 * 60
\* timedelta(hours=1): the fixed appointment duration, in minutes.
Duration == 60
\* a search that probes one window more
MaxAttemptsOffByOne == 10 + 1
\* find_next_available_slot(..., max_attempts=10)
DefaultMaxAttempts == 10
MinutesPerDay == 24 * 60

\* --------------------------------------------------------------- text
None == <<"None">>
Falsy(s) == s = None \/ s = <<>>

RECURSIVE LStrip(_)
LStrip(s) == IF s # <<>> /\ Head(s) = " " THEN LStrip(Tail(s)) ELSE s

RECURSIVE RStrip(_)
RStrip(s) ==
    IF s # <<>> /\ s[Len(s)] = " " THEN RStrip(SubSeq(s, 1, Len(s) - 1)) ELSE s

\* str.strip()
Strip(s) == RStrip(LStrip(s))

LowerChar(c) ==
    CASE c = "A" -> "a" [] c = "B" -> "b" [] c = "E" -> "e" [] c = "K" -> "k"
      [] c = "N" -> "n" [] c = "O" -> "o" [] c = "S" -> "s" [] c = "Y" -> "y"
      [] OTHER -> c
\* str.lower()
Lower(s) == [i \in 1..Len(s) |-> LowerChar(s[i])]

Digits == {"0", "1", "2", "3", "4", "5", "6", "7", "8", "9"}

RECURSIVE OnlyDigits(_)
\* re.sub(r'\D', '', phone)
OnlyDigits(s) ==
    IF s = <<>> THEN <<>>
    ELSE IF Head(s) \in Digits THEN <<Head(s)>> \o OnlyDigits(Tail(s))
    ELSE OnlyDigits(Tail(s))

normalize_email(email) ==
    IF Falsy(email) THEN None ELSE Lower(Strip(email))

normalize_phone(phone) ==
    IF Falsy(phone) THEN None
    ELSE LET ph == Strip(phone)
             leading_plus == ph # <<>> /\ Head(ph) = "+"
         IN IF leading_plus THEN <<"+">> \o OnlyDigits(ph) ELSE OnlyDigits(ph)

\* Python's `a in b` on strings
Contains(b, a) ==
    \E i \in 1..(Len(b) - Len(a) + 1) : SubSeq(b, i, i + Len(a) - 1) = a

\* --------------------------------------------------------------- dates
\* A date text is [fmt, day]: fmt "iso" is YYYY-MM-DD, "dmy" is DD.MM.YYYY,
\* "empty" is '' and "blank" is whitespace only.  A time text is
\* [fmt, hour, minute] with fmt "hm" for HH:MM.
NoDate == [fmt |-> "none", day |-> 0]
NoTime == [fmt |-> "none", hour |-> 0, minute |-> 0]
IsoDate(d) == [fmt |-> "iso", day |-> d]
DmyDate(d) == [fmt |-> "dmy", day |-> d]
HM(h, m) == [fmt |-> "hm", hour |-> h, minute |-> m]
EmptyDate == [fmt |-> "empty", day |-> 0]
BlankDate == [fmt |-> "blank", day |-> 0]
EmptyTime == [fmt |-> "empty", hour |-> 0, minute |-> 0]
BlankTime == [fmt |-> "blank", hour |-> 0, minute |-> 0]

\* `not s or not s.strip()` on a date or time text
BlankText(t) == t.fmt \in {"empty", "blank"}

\* strptime over date_formats: the day the text denotes, whatever its format
parse_date_to_datetime(date) == date.day

\* Calendar fields of a day (2025-12-01 is day 0; valid through January 2026)
MonthOf(d) == IF d < 31 THEN 12 ELSE 1
DayOfMonth(d) == IF d < 31 THEN d + 1 ELSE d - 30
\* the day that is the given day of the month of December 2025 / January 2026
DayOf(month, dayOfMonth) == IF month = 12 THEN dayOfMonth - 1 ELSE dayOfMonth + 30
\* datetime.weekday(): Monday is 0
Weekday(d) == d % 7

is_it_holiday(date) ==
    LET dt == parse_date_to_datetime(date)
    IN IF MonthOf(dt) = 12 /\ DayOfMonth(dt) \in {8, 24, 25, 26} THEN TRUE
       ELSE IF MonthOf(dt) = 1 /\ DayOfMonth(dt) = 1 THEN TRUE
       ELSE IF Weekday(dt) >= 5 THEN TRUE
       ELSE FALSE

is_it_in_work_hours(date, time) ==
    IF is_it_holiday(date) THEN FALSE
    ELSE IF Weekday(parse_date_to_datetime(date)) >= 5 THEN FALSE
    ELSE IF time.hour < 9 \/ time.hour >= 17 THEN FALSE
    ELSE TRUE

\* dt.replace(hour=..., minute=..., tzinfo=ZoneInfo('Europe/Rome'))
RomeInstant(date, time) ==
    parse_date_to_datetime(date) * MinutesPerDay + time.hour * 60 + time.minute

\* slot_start.strftime('%Y-%m-%d') and strftime('%H:%M') of a Rome instant
StrfDate(t) == IsoDate(t \div MinutesPerDay)
\* strftime('%H:00'): the minute dropped
StrfTimeOnTheHour(t) == HM((t % MinutesPerDay) \div 60, 0)
StrfTime(t) == HM((t % MinutesPerDay) \div 60, t % 60)

\* ------------------------------------------------------------ environment
Procs == {1, 2}
\* os.getenv('PUBLIC_CALENDAR_ID', 'primary')
CalendarIds == {"primary", "public"}
\* what get_local_timezone() can return, with its winter UTC offset in minutes
TzOffset(tz) == IF tz = "Europe/Rome" THEN 60 ELSE 0
TimeZones == {"Europe/Rome", "Europe/London"}

VARIABLES
    cal,               \* the remote store: the set of events of all calendars
    nextId,            \* the id the remote store assigns to the next event
    publicCalendarId,  \* value of PUBLIC_CALENDAR_ID ("primary" when unset)
    localTz,           \* value get_local_timezone() returns on this host
    now,               \* datetime.now(), as an instant
    offers,            \* confirmation offers raised and not yet resumed
    proc               \* the invocation each process is running

vars == <<cal, nextId, publicCalendarId, localTz, now, offers, proc>>

\* ------------------------------------------------------------ remote store
\* events().list(calendarId='primary', timeMin, timeMax): the events whose
\* end is after timeMin and whose start is before timeMax
EventsInRange(timeMin, timeMax) ==
    {e \in cal : e.calendarId = "primary" /\ e.finish > timeMin /\ e.start < timeMax}

\* events().list(calendarId='primary', timeMin=now): upcoming events
EventsUpcoming == {e \in cal : e.calendarId = "primary" /\ e.finish > now}

\* orderBy='startTime': every listing of S in non-decreasing start order
SortedLists(S) ==
    {f \in [1..Cardinality(S) -> S] :
        /\ \A i, j \in 1..Cardinality(S) : i # j => f[i] # f[j]
        /\ \A i, j \in 1..Cardinality(S) : i < j => f[i].start <= f[j].start}

\* an overlap rule of closed windows: touching windows overlap
OverlapClosed(aStart, aEnd, bStart, bEnd) == ~(aEnd < bStart \/ aStart > bEnd)

\* the overlap rule of half-open windows
Overlap(aStart, aEnd, bStart, bEnd) == ~(aEnd <= bStart \/ aStart >= bEnd)

\* ------------------------------------------------------------ results
NoResult ==
    [status |-> "none", message |-> "none", missing |-> <<>>,
     is_available |-> "absent",
     requested_date |-> NoDate, requested_time |-> NoTime,
     alternative_date |-> NoDate, alternative_time |-> NoTime,
     message_date |-> NoDate, message_time |-> NoTime,
     date |-> NoDate, time |-> NoTime, verified |-> <<>>,
     order_id |-> 0, calendar_id |-> "none", attempts_checked |-> 0,
     available_slots |-> <<>>]

Rejected(msg) == [NoResult EXCEPT !.status = "rejected", !.message = msg]

NoPayload ==
    [email |-> None, phone |-> None,
     original_date |-> NoDate, original_time |-> NoTime,
     alternative_date |-> NoDate, alternative_time |-> NoTime]

\* tool_context.tool_confirmation is None
NoConfirmation == [present |-> FALSE, confirmed |-> FALSE, payload |-> NoPayload]

NoEvent ==
    [id |-> 0, calendarId |-> "none", start |-> 0, finish |-> 0,
     attendee |-> None, description |-> <<>>,
     email_norm |-> None, phone_norm |-> None,
     allDay |-> FALSE]

\* a date expression as parse_date_expression reads it: what kind of phrase it
\* is, the number of "in N days", the weekday named and whether "next" occurs
\* in it, and for a written date its text
Expression(kind, n, weekday, next, text) ==
    [kind |-> kind, n |-> n, weekday |-> weekday, next |-> next, text |-> text]

NoExpression == Expression("none", 0, 0, FALSE, NoDate)

\* user_sessions[user_id]['pending_approval'] when nothing is pending
NoApproval == [tool |-> "none"]

IdleProc ==
    [op |-> "none", pc |-> "idle", expression |-> NoExpression, today |-> 0,
     full_name |-> None, email |-> None, phone |-> None,
     date |-> NoDate, time |-> NoTime,
     conf |-> NoConfirmation,
     events |-> <<>>, event |-> NoEvent,
     attempt |-> 0, max_attempts |-> 0,
     calls |-> <<>>, requests |-> <<>>,
     reply |-> <<>>, pending_approval |-> NoApproval,
     result |-> NoResult]

CanStart(p) == proc[p].pc = "idle"

\* Insert invocations that may still create an event
InFlightInserts ==
    Cardinality({q \in Procs : proc[q].op = "insert" /\ proc[q].pc # "done"})

\* a remote call as the invocation's log keeps it: kind, the window (or the
\* lower bound, or the event id) it was issued for, and the number of events
\* it returned or wrote; n = -1 when the call failed
Call(kind, a, b, n) == [kind |-> kind, a |-> a, b |-> b, n |-> n]

\* a listing never taken as occupied
HasEventsNever(events) == FALSE
\* `if events:` on a listing
HasEvents(events) == events # <<>>

\* the invocation of p returns r
Return(st, r) == [st EXCEPT !.pc = "done", !.result = r]

\* what the session layer keeps of an invocation that raised confirmation
\* requests: the tool, its call arguments and each request's payload
OffersOf(st) ==
    {[tool |-> st.op, email |-> st.email, phone |-> st.phone,
      date |-> st.date, time |-> st.time, payload |-> st.requests[i]] :
        i \in 1..Len(st.requests)}

\* first calls of check_availability / move_appointment still running
InFlightOfferers ==
    Cardinality({q \in Procs : /\ proc[q].op \in {"check", "move"}
                               /\ proc[q].pc # "done"
                               /\ ~proc[q].conf.present})

\* --------------------------------------------- find_next_available_slot
\* a caller's code that offers the alternative again on a resumed Move
FindDoneOffersAgain(st, next_slot) ==
    LET payload == [email |-> st.email, phone |-> st.phone,
                    original_date |-> st.date, original_time |-> st.time,
                    alternative_date |-> next_slot.available_date,
                    alternative_time |-> next_slot.available_time]
    IN IF next_slot.status = "approved"
       THEN Return([st EXCEPT !.requests = Append(@, payload)],
                   [NoResult EXCEPT
                       !.status = "pending",
                       !.message = "occupied_alternative_offered",
                       !.message_date = next_slot.available_date,
                       !.message_time = next_slot.available_time])
       ELSE Return(st, Rejected("occupied_no_alternative"))

\* the code of the caller that follows `next_slot = find_next_available_slot(...)`
FindDone(st, next_slot) ==
    LET payload == [email |-> st.email, phone |-> st.phone,
                    original_date |-> st.date, original_time |-> st.time,
                    alternative_date |-> next_slot.available_date,
                    alternative_time |-> next_slot.available_time]
    IN CASE st.op = "insert" ->
              IF next_slot.status = "approved"
              THEN Return(st, [Rejected("occupied_next_available") EXCEPT
                                  !.message_date = next_slot.available_date,
                                  !.message_time = next_slot.available_time])
              ELSE Return(st, Rejected("occupied_no_alternative"))
         [] st.op = "check" ->
              IF next_slot.status = "rejected"
              THEN Return(st, [Rejected("occupied_no_alternative") EXCEPT
                                  !.is_available = "False",
                                  !.requested_date = st.date,
                                  !.requested_time = st.time])
              ELSE Return([st EXCEPT !.requests = Append(@,
                                 [payload EXCEPT !.email = None, !.phone = None])],
                          [NoResult EXCEPT
                              !.status = "pending",
                              !.message = "occupied_alternative_offered",
                              !.is_available = "False",
                              !.requested_date = st.date,
                              !.requested_time = st.time,
                              !.alternative_date = next_slot.available_date,
                              !.alternative_time = next_slot.available_time])
         [] st.op = "move" ->
              IF ~st.conf.present /\ next_slot.status = "approved"
              THEN Return([st EXCEPT !.requests = Append(@, payload)],
                          [NoResult EXCEPT
                              !.status = "pending",
                              !.message = "occupied_alternative_offered",
                              !.message_date = next_slot.available_date,
                              !.message_time = next_slot.available_time])
              ELSE IF next_slot.status = "approved"
              THEN Return(st, [Rejected("occupied_next_available") EXCEPT
                                  !.message_date = next_slot.available_date,
                                  !.message_time = next_slot.available_time])
              ELSE Return(st, Rejected("occupied_no_alternative"))
         [] OTHER ->
              Return(st, [NoResult EXCEPT
                              !.status = next_slot.status,
                              !.message = next_slot.message,
                              !.message_date = next_slot.available_date,
                              !.message_time = next_slot.available_time,
                              !.attempts_checked = next_slot.attempts_checked])

NextSlot(status, msg, d, t, n) ==
    [status |-> status, message |-> msg, available_date |-> d,
     available_time |-> t, attempts_checked |-> n]

\* a probing loop that returns the free window's time with the date it was
\* called with
FindProbeKeepsDate(p) ==
    /\ proc[p].pc = "find"
    /\ LET st == proc[p]
           slot_start == RomeInstant(st.date, st.time) + st.attempt * 60
           slot_end == slot_start + Duration
           log(n) == [st EXCEPT !.calls = Append(@, Call("list", slot_start, slot_end, n))]
           finish(st2) == /\ proc' = [proc EXCEPT ![p] = st2]
                          /\ offers' = offers \cup OffersOf(st2)
       IN \/ finish(FindDone(log(-1), NextSlot("rejected", "find_http_error",
                                               NoDate, NoTime, 0)))
          \/ \E events \in SortedLists(EventsInRange(slot_start, slot_end)) :
                IF ~HasEvents(events)
                THEN finish(FindDone(log(Len(events)), NextSlot("approved", "found",
                                IsoDate(parse_date_to_datetime(st.date)),
                                StrfTime(slot_start), st.attempt + 1)))
                ELSE IF st.attempt + 1 < st.max_attempts
                THEN /\ proc' = [proc EXCEPT ![p] =
                            [log(Len(events)) EXCEPT !.attempt = @ + 1]]
                     /\ UNCHANGED offers
                ELSE finish(FindDone(log(Len(events)),
                                NextSlot("rejected", "exhausted", NoDate, NoTime, 0)))
    /\ UNCHANGED <<cal, nextId, publicCalendarId, localTz, now>>

\* one iteration of the probing loop: the query for window number `attempt`
FindProbe(p) ==
    /\ proc[p].pc = "find"
    /\ LET st == proc[p]
           slot_start == RomeInstant(st.date, st.time) + st.attempt * 60
           slot_end == slot_start + Duration
           log(n) == [st EXCEPT !.calls = Append(@, Call("list", slot_start, slot_end, n))]
           finish(st2) == /\ proc' = [proc EXCEPT ![p] = st2]
                          /\ offers' = offers \cup OffersOf(st2)
       IN \/ finish(FindDone(log(-1), NextSlot("rejected", "find_http_error",
                                               NoDate, NoTime, 0)))
          \/ \E events \in SortedLists(EventsInRange(slot_start, slot_end)) :
                IF ~HasEvents(events)
                THEN finish(FindDone(log(Len(events)), NextSlot("approved", "found",
                                StrfDate(slot_start), StrfTime(slot_start),
                                st.attempt + 1)))
                ELSE IF st.attempt + 1 < st.max_attempts
                THEN /\ proc' = [proc EXCEPT ![p] =
                            [log(Len(events)) EXCEPT !.attempt = @ + 1]]
                     /\ UNCHANGED offers
                ELSE finish(FindDone(log(Len(events)),
                                NextSlot("rejected", "exhausted", NoDate, NoTime, 0)))
    /\ UNCHANGED <<cal, nextId, publicCalendarId, localTz, now>>

\* ------------------------------------------------------- insert_appointment
BlankStr(s) == Falsy(s) \/ Strip(s) = <<>>

\* validation by `not field` alone, without the strip()
MissingFieldsNoStrip(full_name, email, phone, date, time) ==
    (IF Falsy(full_name) THEN <<"name">> ELSE <<>>)
    \o (IF Falsy(email) THEN <<"email">> ELSE <<>>)
    \o (IF Falsy(phone) THEN <<"phone">> ELSE <<>>)
    \o (IF date.fmt = "empty" THEN <<"date">> ELSE <<>>)
    \o (IF time.fmt = "empty" THEN <<"time">> ELSE <<>>)

MissingFields(full_name, email, phone, date, time) ==
    (IF BlankStr(full_name) THEN <<"name">> ELSE <<>>)
    \o (IF BlankStr(email) THEN <<"email">> ELSE <<>>)
    \o (IF BlankStr(phone) THEN <<"phone">> ELSE <<>>)
    \o (IF BlankText(date) THEN <<"date">> ELSE <<>>)
    \o (IF BlankText(time) THEN <<"time">> ELSE <<>>)

\* entry without the policy gate
StartInsertNoGate(p, full_name, email, phone, date, time) ==
    /\ CanStart(p)
    /\ nextId + InFlightInserts <= MaxEvents
    /\ LET st == [IdleProc EXCEPT !.op = "insert", !.full_name = full_name,
                      !.email = email, !.phone = phone,
                      !.date = date, !.time = time]
           missing == MissingFields(full_name, email, phone, date, time)
       IN proc' = [proc EXCEPT ![p] =
              IF missing # <<>>
              THEN Return(st, [Rejected("missing_fields") EXCEPT !.missing = missing])
              ELSE [st EXCEPT !.pc = "ins_list"]]
    /\ UNCHANGED <<cal, nextId, publicCalendarId, localTz, now, offers>>

\* entry: field validation and the policy gate
StartInsert(p, full_name, email, phone, date, time) ==
    /\ CanStart(p)
    /\ nextId + InFlightInserts <= MaxEvents
    /\ LET st == [IdleProc EXCEPT !.op = "insert", !.full_name = full_name,
                      !.email = email, !.phone = phone,
                      !.date = date, !.time = time]
           missing == MissingFields(full_name, email, phone, date, time)
       IN proc' = [proc EXCEPT ![p] =
              IF missing # <<>>
              THEN Return(st, [Rejected("missing_fields") EXCEPT !.missing = missing])
              ELSE IF ~is_it_in_work_hours(date, time)
              THEN Return(st, Rejected("outside_hours"))
              ELSE [st EXCEPT !.pc = "ins_list"]]
    /\ UNCHANGED <<cal, nextId, publicCalendarId, localTz, now, offers>>

\* the final availability check: the conflict query for the window
InsertList(p) ==
    /\ proc[p].op = "insert" /\ proc[p].pc = "ins_list"
    /\ LET st == proc[p]
           start_datetime_obj == RomeInstant(st.date, st.time)
           end_datetime_obj == start_datetime_obj + Duration
           log(n) == [st EXCEPT !.calls = Append(@,
                         Call("list", start_datetime_obj, end_datetime_obj, n))]
       IN \/ proc' = [proc EXCEPT ![p] = Return(log(-1), Rejected("http_error"))]
          \/ \E events \in SortedLists(EventsInRange(start_datetime_obj,
                                                     end_datetime_obj)) :
                proc' = [proc EXCEPT ![p] =
                    IF HasEvents(events)
                    THEN [log(Len(events)) EXCEPT !.events = events, !.pc = "find",
                              !.attempt = 0,
                              !.max_attempts = DefaultMaxAttempts]
                    ELSE [log(Len(events)) EXCEPT !.events = events, !.pc = "ins_create"]]
    /\ UNCHANGED <<cal, nextId, publicCalendarId, localTz, now, offers>>

\* the event body insert_appointment builds
NewEvent(st) ==
    [id |-> 0, calendarId |-> "none",
     start |-> RomeInstant(st.date, st.time),
     finish |-> RomeInstant(st.date, st.time) + Duration,
     attendee |-> st.email,
     description |-> <<"T", ":">> \o <<"P", ":">> \o st.phone,
     email_norm |-> normalize_email(st.email),
     phone_norm |-> normalize_phone(st.phone),
     allDay |-> FALSE]

\* events().insert(calendarId, body): the store assigns the id
RemoteInsert(calendarId, body) ==
    cal \cup {[body EXCEPT !.id = nextId, !.calendarId = calendarId]}

\* a create that checks the window again, atomically with the write
InsertCreateChecked(p) ==
    /\ proc[p].op = "insert" /\ proc[p].pc = "ins_create"
    /\ LET st == proc[p]
           event == NewEvent(st)
           log(n) == [st EXCEPT !.calls = Append(@,
                         Call("insert", event.start, event.finish, n))]
       IN IF EventsInRange(event.start, event.finish) # {}
          THEN /\ proc' = [proc EXCEPT ![p] =
                      Return(log(0), Rejected("slot_taken_at_write"))]
               /\ UNCHANGED <<cal, nextId>>
          ELSE /\ cal' = RemoteInsert(publicCalendarId, event)
               /\ nextId' = nextId + 1
               /\ proc' = [proc EXCEPT ![p] =
                      Return(log(1), [NoResult EXCEPT
                                     !.status = "approved",
                                     !.message = "confirmed",
                                     !.order_id = nextId,
                                     !.calendar_id = publicCalendarId,
                                     !.date = st.date,
                                     !.time = st.time])]
    /\ UNCHANGED <<publicCalendarId, localTz, now, offers>>

\* the remote create
InsertCreate(p) ==
    /\ proc[p].op = "insert" /\ proc[p].pc = "ins_create"
    /\ LET st == proc[p]
           event == NewEvent(st)
           target_calendar_id == publicCalendarId
           log(n) == [st EXCEPT !.calls = Append(@,
                         Call("insert", event.start, event.finish, n))]
       IN \/ /\ proc' = [proc EXCEPT ![p] = Return(log(-1), Rejected("http_error"))]
             /\ UNCHANGED <<cal, nextId>>
          \/ /\ cal' = RemoteInsert(target_calendar_id, event)
             /\ nextId' = nextId + 1
             /\ proc' = [proc EXCEPT ![p] =
                    Return(log(1), [NoResult EXCEPT
                                   !.status = "approved",
                                   !.message = "confirmed",
                                   !.order_id = nextId,
                                   !.calendar_id = target_calendar_id,
                                   !.date = st.date,
                                   !.time = st.time])]
    /\ UNCHANGED <<publicCalendarId, localTz, now, offers>>

\* ------------------------------------------------------- check_availability
\* first call (no tool_confirmation): the policy gate
StartCheck(p, date, time) ==
    /\ CanStart(p)
    /\ Cardinality(offers) + InFlightOfferers < MaxOffers
    /\ LET st == [IdleProc EXCEPT !.op = "check", !.date = date, !.time = time]
       IN proc' = [proc EXCEPT ![p] =
              IF ~is_it_in_work_hours(date, time)
              THEN Return(st, [Rejected("outside_hours") EXCEPT
                                  !.is_available = "False",
                                  !.requested_date = date,
                                  !.requested_time = time])
              ELSE [st EXCEPT !.pc = "chk_list"]]
    /\ UNCHANGED <<cal, nextId, publicCalendarId, localTz, now, offers>>

\* a resume that approves the originally requested window
ResumeCheckOriginal(p, offer, confirmed) ==
    /\ CanStart(p)
    /\ offer \in offers /\ offer.tool = "check"
    /\ offers' = offers \ {offer}
    /\ LET st == [IdleProc EXCEPT !.op = "check",
                      !.date = offer.date, !.time = offer.time,
                      !.conf = [present |-> TRUE, confirmed |-> confirmed,
                                payload |-> offer.payload]]
       IN proc' = [proc EXCEPT ![p] =
              IF confirmed
              THEN Return(st, [NoResult EXCEPT
                                  !.status = "approved",
                                  !.message = "alternative_approved",
                                  !.is_available = "True",
                                  !.requested_date = st.date,
                                  !.requested_time = st.time])
              ELSE Return(st, [Rejected("declined") EXCEPT
                                  !.is_available = "False",
                                  !.requested_date = st.date,
                                  !.requested_time = st.time])]
    /\ UNCHANGED <<cal, nextId, publicCalendarId, localTz, now>>

\* resume: the tool is called again with the caller's decision and the payload
ResumeCheck(p, offer, confirmed) ==
    /\ CanStart(p)
    /\ offer \in offers /\ offer.tool = "check"
    /\ offers' = offers \ {offer}
    /\ LET st == [IdleProc EXCEPT !.op = "check",
                      !.date = offer.date, !.time = offer.time,
                      !.conf = [present |-> TRUE, confirmed |-> confirmed,
                                payload |-> offer.payload]]
           payload == st.conf.payload
       IN proc' = [proc EXCEPT ![p] =
              IF confirmed
              THEN Return(st, [NoResult EXCEPT
                                  !.status = "approved",
                                  !.message = "alternative_approved",
                                  !.is_available = "True",
                                  !.requested_date = payload.alternative_date,
                                  !.requested_time = payload.alternative_time])
              ELSE Return(st, [Rejected("declined") EXCEPT
                                  !.is_available = "False",
                                  !.requested_date = st.date,
                                  !.requested_time = st.time])]
    /\ UNCHANGED <<cal, nextId, publicCalendarId, localTz, now>>

\* the conflict query of the requested window
CheckList(p) ==
    /\ proc[p].op = "check" /\ proc[p].pc = "chk_list"
    /\ LET st == proc[p]
           start_datetime == RomeInstant(st.date, st.time)
           end_datetime == start_datetime + Duration
           log(n) == [st EXCEPT !.calls = Append(@,
                         Call("list", start_datetime, end_datetime, n))]
       IN \/ proc' = [proc EXCEPT ![p] =
                Return(log(-1), [Rejected("http_error") EXCEPT !.is_available = "False"])]
          \/ \E events \in SortedLists(EventsInRange(start_datetime, end_datetime)) :
                proc' = [proc EXCEPT ![p] =
                    IF HasEvents(events)
                    THEN [log(Len(events)) EXCEPT !.events = events, !.pc = "find",
                              !.attempt = 0,
                              !.max_attempts = DefaultMaxAttempts]
                    ELSE Return([log(Len(events)) EXCEPT !.events = events],
                                [NoResult EXCEPT
                                    !.status = "approved",
                                    !.message = "available",
                                    !.is_available = "True",
                                    !.requested_date = st.date,
                                    !.requested_time = st.time])]
    /\ UNCHANGED <<cal, nextId, publicCalendarId, localTz, now, offers>>

\* ---------------------------------------------------- return_available_slots
\* the hourly starts the loop `for hour in range(9, 17)` goes through
HourlyStarts == [i \in 1..(17 - 9) |-> HM(9 + i - 1, 0)]

\* the inner loop over the day's events: events without a 'T' in their start
\* (all-day events) are skipped, the others are tested for overlap
is_occupied(events, slot_start, slot_end) ==
    \E i \in 1..Len(events) :
        /\ ~events[i].allDay
        /\ Overlap(slot_start, slot_end, events[i].start, events[i].finish)

StartSlots(p, date) ==
    /\ CanStart(p)
    /\ LET st == [IdleProc EXCEPT !.op = "slots", !.date = date]
       IN proc' = [proc EXCEPT ![p] =
              IF is_it_holiday(date)
              THEN Return(st, [Rejected("holiday") EXCEPT !.date = date])
              ELSE [st EXCEPT !.pc = "slots_list"]]
    /\ UNCHANGED <<cal, nextId, publicCalendarId, localTz, now, offers>>

\* the listing of the day's events and the scan of the hourly slots
SlotsList(p) ==
    /\ proc[p].op = "slots" /\ proc[p].pc = "slots_list"
    /\ LET st == proc[p]
           dt == parse_date_to_datetime(st.date)
           day_start == dt * MinutesPerDay
           day_end == day_start + MinutesPerDay
           log(n) == [st EXCEPT !.calls = Append(@,
                         Call("list", day_start, day_end, n))]
       IN \/ proc' = [proc EXCEPT ![p] =
                Return(log(-1), [Rejected("exception") EXCEPT !.date = st.date])]
          \/ \E events \in SortedLists(EventsInRange(day_start, day_end)) :
                LET free(t) == ~is_occupied(events, RomeInstant(st.date, t),
                                            RomeInstant(st.date, t) + Duration)
                IN proc' = [proc EXCEPT ![p] =
                       Return([log(Len(events)) EXCEPT !.events = events],
                              [NoResult EXCEPT
                                  !.status = "approved",
                                  !.message = "slots_available",
                                  !.date = IsoDate(dt),
                                  !.available_slots =
                                      SelectSeq(HourlyStarts, free)])]
    /\ UNCHANGED <<cal, nextId, publicCalendarId, localTz, now, offers>>

\* ------------------------------------------------------------ identity match
\* a matcher with AND semantics: no match unless both identifiers match
MatchEventBoth(event, email, phone) ==
    LET email_matches == /\ ~Falsy(email)
                         /\ event.email_norm = normalize_email(email)
        phone_matches == /\ ~Falsy(phone)
                         /\ event.phone_norm = normalize_phone(phone)
    IN [email_matches |-> email_matches,
        phone_matches |-> phone_matches,
        raises |-> FALSE,
        matches |-> email_matches /\ phone_matches]

\* the body of the matching loop for one event: which identifiers match, and
\* whether evaluating it raises (`phone_norm in None` for an event whose
\* description is empty)
MatchEvent(event, email, phone) ==
    LET email_norm == IF ~Falsy(email) THEN normalize_email(email) ELSE None
        phone_norm == IF ~Falsy(phone) THEN normalize_phone(phone) ELSE None
        description_digits == normalize_phone(event.description)
        email_matches ==
            IF ~Falsy(email_norm)
            THEN IF ~Falsy(event.email_norm) /\ event.email_norm = email_norm
                 THEN TRUE
                 ELSE /\ event.attendee # None
                      /\ normalize_email(event.attendee) = email_norm
            ELSE FALSE
        stored_phone == ~Falsy(event.phone_norm) /\ event.phone_norm = phone_norm
        phone_matches ==
            IF ~Falsy(phone_norm)
            THEN IF stored_phone THEN TRUE
                 ELSE /\ description_digits # None
                      /\ Contains(description_digits, phone_norm)
            ELSE FALSE
    IN [email_matches |-> email_matches,
        phone_matches |-> phone_matches,
        raises |-> /\ ~Falsy(phone_norm) /\ ~stored_phone
                   /\ description_digits = None,
        matches |-> /\ (~Falsy(email_norm) \/ ~Falsy(phone_norm))
                    /\ (email_matches \/ phone_matches)]

\* a scan that keeps going after a match and stops at the last one
FirstStopLast(events, email, phone) ==
    LET stops == {i \in 1..Len(events) :
                     LET m == MatchEvent(events[i], email, phone)
                     IN m.raises \/ m.matches}
    IN IF stops = {} THEN 0
       ELSE CHOOSE i \in stops : \A j \in stops : i >= j

\* `for event in events`: the index of the first event at which the loop
\* stops, by a match or by an exception; 0 when it runs to the end
FirstStop(events, email, phone) ==
    LET stops == {i \in 1..Len(events) :
                     LET m == MatchEvent(events[i], email, phone)
                     IN m.raises \/ m.matches}
    IN IF stops = {} THEN 0
       ELSE CHOOSE i \in stops : \A j \in stops : i <= j

Verified(m) ==
    (IF m.email_matches THEN <<"email">> ELSE <<>>)
    \o (IF m.phone_matches THEN <<"phone">> ELSE <<>>)

\* ------------------------------------------------------- delete_appointment
StartDelete(p, email, phone) ==
    /\ CanStart(p)
    /\ LET st == [IdleProc EXCEPT !.op = "delete", !.email = email, !.phone = phone]
       IN proc' = [proc EXCEPT ![p] =
              IF Falsy(email) /\ Falsy(phone)
              THEN Return(st, Rejected("need_identifier"))
              ELSE [st EXCEPT !.pc = "del_list"]]
    /\ UNCHANGED <<cal, nextId, publicCalendarId, localTz, now, offers>>

\* list the upcoming events and scan them for the first match
DeleteList(p) ==
    /\ proc[p].op = "delete" /\ proc[p].pc = "del_list"
    /\ LET log(n) == [proc[p] EXCEPT !.calls = Append(@,
                         Call("list_upcoming", now, 0, n))]
       IN \/ proc' = [proc EXCEPT ![p] = Return(log(-1), Rejected("http_error"))]
          \/ \E events \in SortedLists(EventsUpcoming) :
                LET st == log(Len(events))
                    i == FirstStop(events, st.email, st.phone)
                    st1 == [st EXCEPT !.events = events]
                IN proc' = [proc EXCEPT ![p] =
                       IF ~HasEvents(events)
                       THEN Return(st1, Rejected("no_upcoming"))
                       ELSE IF i = 0
                       THEN Return(st1, Rejected("not_found"))
                       ELSE IF MatchEvent(events[i], st.email, st.phone).raises
                       THEN Return(st1, Rejected("exception"))
                       ELSE [st1 EXCEPT !.event = events[i], !.pc = "del_delete"]]
    /\ UNCHANGED <<cal, nextId, publicCalendarId, localTz, now, offers>>

\* events().delete(calendarId='primary', eventId): fails when the event is gone
RemoteDeleteOk(eventId) ==
    \E e \in cal : e.calendarId = "primary" /\ e.id = eventId

RemoteDelete(eventId) ==
    {e \in cal : ~(e.calendarId = "primary" /\ e.id = eventId)}

\* a delete followed by a listing that reads the calendar back
DeleteCallReadsBack(p) ==
    /\ proc[p].op = "delete" /\ proc[p].pc = "del_delete"
    /\ LET st == proc[p]
           event_id == st.event.id
           log(n) == [st EXCEPT !.calls = Append(@, Call("delete", event_id, 0, n))]
           again(s) == [s EXCEPT !.calls = Append(@,
                           Call("list_upcoming", now, 0, Len(st.events) - 1))]
       IN \/ /\ proc' = [proc EXCEPT ![p] = Return(log(-1), Rejected("http_error"))]
             /\ UNCHANGED cal
          \/ /\ RemoteDeleteOk(event_id)
             /\ cal' = RemoteDelete(event_id)
             /\ proc' = [proc EXCEPT ![p] =
                    Return(again(log(1)), [NoResult EXCEPT
                                   !.status = "approved",
                                   !.message = "cancelled",
                                   !.order_id = event_id])]
    /\ UNCHANGED <<nextId, publicCalendarId, localTz, now, offers>>

\* the remote delete of the matched event
DeleteCall(p) ==
    /\ proc[p].op = "delete" /\ proc[p].pc = "del_delete"
    /\ LET st == proc[p]
           event_id == st.event.id
           log(n) == [st EXCEPT !.calls = Append(@, Call("delete", event_id, 0, n))]
       IN \/ /\ proc' = [proc EXCEPT ![p] = Return(log(-1), Rejected("http_error"))]
             /\ UNCHANGED cal
          \/ /\ RemoteDeleteOk(event_id)
             /\ cal' = RemoteDelete(event_id)
             /\ proc' = [proc EXCEPT ![p] =
                    Return(log(1), [NoResult EXCEPT
                                   !.status = "approved",
                                   !.message = "cancelled",
                                   !.order_id = event_id,
                                   !.verified = Verified(MatchEvent(st.event,
                                                     st.email, st.phone))])]
    /\ UNCHANGED <<nextId, publicCalendarId, localTz, now, offers>>

\* --------------------------------------------------------- move_appointment
\* first call (no tool_confirmation)
StartMove(p, email, phone, new_date, new_time) ==
    /\ CanStart(p)
    /\ Cardinality(offers) + InFlightOfferers < MaxOffers
    /\ proc' = [proc EXCEPT ![p] =
           [IdleProc EXCEPT !.op = "move", !.pc = "mv_list",
                !.email = email, !.phone = phone,
                !.date = new_date, !.time = new_time]]
    /\ UNCHANGED <<cal, nextId, publicCalendarId, localTz, now, offers>>

\* a resume that goes on with the move whatever the decision
ResumeMoveIgnoresDecision(p, offer, confirmed) ==
    /\ CanStart(p)
    /\ offer \in offers /\ offer.tool = "move"
    /\ offers' = offers \ {offer}
    /\ LET conf == [present |-> TRUE, confirmed |-> confirmed,
                    payload |-> offer.payload]
           payload == conf.payload
       IN proc' = [proc EXCEPT ![p] =
              [IdleProc EXCEPT !.op = "move", !.pc = "mv_list",
                   !.conf = conf,
                   !.date = payload.alternative_date,
                   !.time = payload.alternative_time,
                   !.email = payload.email, !.phone = payload.phone]]
    /\ UNCHANGED <<cal, nextId, publicCalendarId, localTz, now>>

\* resume: target window and identifiers are taken from the payload
ResumeMove(p, offer, confirmed) ==
    /\ CanStart(p)
    /\ offer \in offers /\ offer.tool = "move"
    /\ offers' = offers \ {offer}
    /\ LET conf == [present |-> TRUE, confirmed |-> confirmed,
                    payload |-> offer.payload]
           payload == conf.payload
       IN proc' = [proc EXCEPT ![p] =
              IF confirmed
              THEN [IdleProc EXCEPT !.op = "move", !.pc = "mv_list",
                        !.conf = conf,
                        !.date = payload.alternative_date,
                        !.time = payload.alternative_time,
                        !.email = payload.email, !.phone = payload.phone]
              ELSE Return([IdleProc EXCEPT !.op = "move", !.conf = conf,
                               !.email = offer.email, !.phone = offer.phone,
                               !.date = offer.date, !.time = offer.time],
                          Rejected("declined"))]
    /\ UNCHANGED <<cal, nextId, publicCalendarId, localTz, now>>

\* list the upcoming events, locate the appointment, apply the policy gate
MoveList(p) ==
    /\ proc[p].op = "move" /\ proc[p].pc = "mv_list"
    /\ LET log(n) == [proc[p] EXCEPT !.calls = Append(@,
                         Call("list_upcoming", now, 0, n))]
       IN \/ proc' = [proc EXCEPT ![p] = Return(log(-1), Rejected("http_error"))]
          \/ \E events \in SortedLists(EventsUpcoming) :
                LET st == log(Len(events))
                    i == FirstStop(events, st.email, st.phone)
                    st1 == [st EXCEPT !.events = events]
                IN proc' = [proc EXCEPT ![p] =
                       IF i = 0
                       THEN Return(st1, Rejected("not_found"))
                       ELSE IF MatchEvent(events[i], st.email, st.phone).raises
                       THEN Return(st1, Rejected("exception"))
                       ELSE IF ~is_it_in_work_hours(st.date, st.time)
                       THEN Return([st1 EXCEPT !.event = events[i]],
                                   Rejected("outside_hours"))
                       ELSE [st1 EXCEPT !.event = events[i], !.pc = "mv_conflicts"]]
    /\ UNCHANGED <<cal, nextId, publicCalendarId, localTz, now, offers>>

\* a move that writes the new start and end before it looks at the conflicts
MoveConflictsUpdatesFirst(p) ==
    /\ proc[p].op = "move" /\ proc[p].pc = "mv_conflicts"
    /\ LET st == proc[p]
           start_datetime_obj == RomeInstant(st.date, st.time)
           end_datetime_obj == start_datetime_obj + Duration
           event_id == st.event.id
           body == [st.event EXCEPT !.start = start_datetime_obj,
                                    !.finish = end_datetime_obj]
           log(n) == [st EXCEPT !.calls = Append(@,
                         Call("list", start_datetime_obj, end_datetime_obj, n))]
       IN \E events \in SortedLists(EventsInRange(start_datetime_obj,
                                                   end_datetime_obj)) :
             LET conflicting_events == SelectSeq(events, LAMBDA e : e.id # event_id)
             IN /\ cal' = {e \in cal : e.id # event_id} \cup {body}
                /\ proc' = [proc EXCEPT ![p] =
                       IF HasEvents(conflicting_events)
                       THEN [log(Len(events)) EXCEPT
                                 !.events = conflicting_events, !.pc = "find",
                                 !.attempt = 0,
                                 !.max_attempts = DefaultMaxAttempts]
                       ELSE Return(log(Len(events)),
                                   [NoResult EXCEPT !.status = "approved",
                                        !.message = "rescheduled",
                                        !.order_id = event_id,
                                        !.date = st.date, !.time = st.time])]
    /\ UNCHANGED <<nextId, publicCalendarId, localTz, now, offers>>

\* a conflict check that counts the moved appointment among the conflicts
MoveConflictsCountsOwn(p) ==
    /\ proc[p].op = "move" /\ proc[p].pc = "mv_conflicts"
    /\ LET st == proc[p]
           start_datetime_obj == RomeInstant(st.date, st.time)
           end_datetime_obj == start_datetime_obj + Duration
           log(n) == [st EXCEPT !.calls = Append(@,
                         Call("list", start_datetime_obj, end_datetime_obj, n))]
       IN \/ proc' = [proc EXCEPT ![p] = Return(log(-1), Rejected("http_error"))]
          \/ \E events \in SortedLists(EventsInRange(start_datetime_obj,
                                                     end_datetime_obj)) :
                proc' = [proc EXCEPT ![p] =
                    IF HasEvents(events)
                    THEN [log(Len(events)) EXCEPT
                              !.events = events, !.pc = "find",
                              !.attempt = 0,
                              !.max_attempts = DefaultMaxAttempts]
                    ELSE [log(Len(events)) EXCEPT
                              !.events = events, !.pc = "mv_update"]]
    /\ UNCHANGED <<cal, nextId, publicCalendarId, localTz, now, offers>>

\* the conflict query of the new window, the moved event filtered out
MoveConflicts(p) ==
    /\ proc[p].op = "move" /\ proc[p].pc = "mv_conflicts"
    /\ LET st == proc[p]
           start_datetime_obj == RomeInstant(st.date, st.time)
           end_datetime_obj == start_datetime_obj + Duration
           event_id == st.event.id
           log(n) == [st EXCEPT !.calls = Append(@,
                         Call("list", start_datetime_obj, end_datetime_obj, n))]
       IN \/ proc' = [proc EXCEPT ![p] = Return(log(-1), Rejected("http_error"))]
          \/ \E events \in SortedLists(EventsInRange(start_datetime_obj,
                                                     end_datetime_obj)) :
                LET conflicting_events == SelectSeq(events, LAMBDA e : e.id # event_id)
                IN proc' = [proc EXCEPT ![p] =
                       IF HasEvents(conflicting_events)
                       THEN [log(Len(events)) EXCEPT
                                 !.events = conflicting_events, !.pc = "find",
                                 !.attempt = 0,
                                 !.max_attempts = DefaultMaxAttempts]
                       ELSE [log(Len(events)) EXCEPT
                                 !.events = conflicting_events, !.pc = "mv_update"]]
    /\ UNCHANGED <<cal, nextId, publicCalendarId, localTz, now, offers>>

\* dt.replace(hour=..., minute=..., tzinfo=ZoneInfo(get_local_timezone())):
\* the wall-clock time read in the host's zone, as an instant
LocalInstant(date, time) ==
    RomeInstant(date, time) + (TzOffset("Europe/Rome") - TzOffset(localTz))

\* an update body built afresh: start, end and attendee, without the
\* description and the stored normalized identifiers
MovedEventRebuilt(st) ==
    [st.event EXCEPT !.start = LocalInstant(st.date, st.time),
                     !.finish = LocalInstant(st.date, st.time) + Duration,
                     !.description = <<>>,
                     !.email_norm = None, !.phone_norm = None]

\* the body of the update: the listed event with new start and end
MovedEvent(st) ==
    [st.event EXCEPT !.start = LocalInstant(st.date, st.time),
                     !.finish = LocalInstant(st.date, st.time) + Duration]

\* events().update(calendarId='primary', eventId, body): fails when the event
\* is gone, otherwise replaces the stored event by the body
RemoteUpdateOk(eventId) ==
    \E e \in cal : e.calendarId = "primary" /\ e.id = eventId

RemoteUpdate(eventId, body) ==
    {e \in cal : ~(e.calendarId = "primary" /\ e.id = eventId)}
        \cup {[body EXCEPT !.id = eventId, !.calendarId = "primary"]}

\* the remote update
MoveUpdate(p) ==
    /\ proc[p].op = "move" /\ proc[p].pc = "mv_update"
    /\ LET st == proc[p]
           event_id == st.event.id
           body == MovedEvent(st)
           log(n) == [st EXCEPT !.calls = Append(@,
                         Call("update", body.start, body.finish, n))]
       IN \/ /\ proc' = [proc EXCEPT ![p] = Return(log(-1), Rejected("http_error"))]
             /\ UNCHANGED cal
          \/ /\ RemoteUpdateOk(event_id)
             /\ cal' = RemoteUpdate(event_id, body)
             /\ proc' = [proc EXCEPT ![p] =
                    Return(log(1), [NoResult EXCEPT
                                   !.status = "approved",
                                   !.message = "rescheduled",
                                   !.order_id = event_id,
                                   !.date = st.date, !.time = st.time,
                                   !.verified = Verified(MatchEvent(st.event,
                                                     st.email, st.phone))])]
    /\ UNCHANGED <<nextId, publicCalendarId, localTz, now, offers>>

\* ------------------------------------------------------------------ inputs
\* Friday 2025-12-05, Saturday 2025-12-06, Monday 2025-12-08 (a holiday)
Fri == DayOf(12, 5)
Sat == DayOf(12, 6)
HolidayMon == DayOf(12, 8)
\* the <<date, time>> pairs the tools are called with: three bookable Friday
\* windows (one written DD.MM.YYYY), after hours, a weekend, a holiday
Slots ==
    {<<IsoDate(Fri), HM(9, 0)>>, <<IsoDate(Fri), HM(9, 30)>>,
     <<DmyDate(Fri), HM(10, 0)>>, <<IsoDate(Fri), HM(17, 0)>>,
     <<IsoDate(Sat), HM(10, 0)>>, <<IsoDate(HolidayMon), HM(10, 0)>>}
NameN == <<"n">>
EmailA == <<"a", "@", "x">>
EmailB == <<"b", "@", "x">>
PhoneA == <<"+", "1", "2">>
PhoneB == <<"3", "4">>
\* the same identifiers in another spelling
EmailASpelled == <<" ", "A", "@", "x">>
PhoneASpelled == <<"+", "1", "-", "2">>

\* well-formed Insert arguments
InsertInputs ==
    {<<NameN, i[1], i[2], s[1], s[2]>> :
        i \in {<<EmailASpelled, PhoneASpelled>>}, s \in Slots}

\* Insert arguments with the fields of `blanks` empty ('') or whitespace (' ')
BlankedInput(blanks, ws) ==
    <<IF "name" \in blanks THEN (IF ws THEN <<" ">> ELSE <<>>) ELSE NameN,
      IF "email" \in blanks THEN (IF ws THEN <<" ">> ELSE <<>>) ELSE EmailA,
      IF "phone" \in blanks THEN (IF ws THEN <<" ">> ELSE <<>>) ELSE PhoneA,
      IF "date" \in blanks THEN (IF ws THEN BlankDate ELSE EmptyDate)
                           ELSE IsoDate(Fri),
      IF "time" \in blanks THEN (IF ws THEN BlankTime ELSE EmptyTime)
                           ELSE HM(9, 0)>>

BlankInsertInputs ==
    {BlankedInput(blanks, ws) :
        blanks \in (SUBSET {"name", "email", "phone", "date", "time"}) \ {{}},
        ws \in BOOLEAN}

\* the identifiers Cancel and Move are called with: <<email, phone>>
Idents == {<<EmailA, None>>, <<None, PhoneA>>, <<EmailB, PhoneB>>, <<None, None>>}

\* an appointment as insert_appointment writes it
ApptA ==
    [id |-> 1, calendarId |-> "primary",
     start |-> RomeInstant(IsoDate(Fri), HM(10, 0)),
     finish |-> RomeInstant(IsoDate(Fri), HM(11, 0)),
     attendee |-> EmailA, description |-> <<"T", ":", "P", ":">> \o PhoneA,
     email_norm |-> EmailA, phone_norm |-> PhoneA,
     allDay |-> FALSE]

\* a legacy event without normalized metadata, ten hours long
LegacyBlock ==
    [id |-> 1, calendarId |-> "primary",
     start |-> RomeInstant(IsoDate(Fri), HM(10, 0)),
     finish |-> RomeInstant(IsoDate(Fri), HM(20, 0)),
     attendee |-> EmailB, description |-> <<"P", ":">> \o PhoneB,
     email_norm |-> None, phone_norm |-> None,
     allDay |-> FALSE]

\* the configurations explored: the default one, PUBLIC_CALENDAR_ID set to
\* another calendar, and a host whose zone is not Europe/Rome
Configs ==
    {<<"primary", "Europe/Rome">>, <<"public", "Europe/Rome">>,
     <<"primary", "Europe/London">>}

InitCalendars == {{}, {ApptA}, {LegacyBlock}}
NowChoices == {0}

\* ------------------------------------------------------------ specification
Init ==
    /\ cal \in InitCalendars
    /\ nextId = Cardinality(cal) + 1
    /\ \E c \in Configs : publicCalendarId = c[1] /\ localTz = c[2]
    /\ now \in NowChoices
    /\ offers = {}
    /\ proc = [p \in Procs |-> IdleProc]

\* one step of the invocation process p runs
Step(p) ==
    \/ InsertList(p)
    \/ InsertCreate(p)
    \/ CheckList(p)
    \/ FindProbe(p)
    \/ DeleteList(p)
    \/ DeleteCall(p)
    \/ MoveList(p)
    \/ MoveConflicts(p)
    \/ MoveUpdate(p)

\* a tool is invoked on process p
Start(p) ==
    \/ \E a \in InsertInputs \cup BlankInsertInputs :
          StartInsert(p, a[1], a[2], a[3], a[4], a[5])
    \/ \E s \in Slots : StartCheck(p, s[1], s[2])
    \/ \E o \in offers, c \in BOOLEAN : ResumeCheck(p, o, c)
    \/ \E i \in Idents : StartDelete(p, i[1], i[2])
    \/ \E i \in Idents, s \in Slots : StartMove(p, i[1], i[2], s[1], s[2])
    \/ \E o \in offers, c \in BOOLEAN : ResumeMove(p, o, c)

\* the tool's result has been handed to the caller
Finish(p) ==
    /\ proc[p].pc = "done"
    /\ proc' = [proc EXCEPT ![p] = IdleProc]
    /\ UNCHANGED <<cal, nextId, publicCalendarId, localTz, now, offers>>

\* invocations run one at a time: process 1 runs every invocation, and a tool
\* starts only after the previous one has returned
Next == Start(1) \/ Step(1) \/ Finish(1)

Spec == Init /\ [][Next]_vars

\* ------------------------------------------- concurrent invocations
\* Two invocations run concurrently in the default configuration; each step
\* is one remote call, so the calls of the two interleave freely.
InitRace ==
    /\ cal \in {{}, {ApptA}}
    /\ nextId = Cardinality(cal) + 1
    /\ publicCalendarId = "primary"
    /\ localTz = "Europe/Rome"
    /\ now = 0
    /\ offers = {}
    /\ proc = [p \in Procs |-> IdleProc]

RaceSlots == {<<IsoDate(Fri), HM(9, 0)>>}

StartRace(p) ==
    \/ \E s \in RaceSlots :
          StartInsert(p, NameN, EmailASpelled, PhoneASpelled, s[1], s[2])
    \/ StartMove(p, EmailA, None, IsoDate(Fri), HM(9, 0))
    \/ \E o \in offers, c \in BOOLEAN : ResumeMove(p, o, c)

StepRace(p) ==
    \/ InsertList(p)
    \/ InsertCreate(p)
    \/ FindProbe(p)
    \/ MoveList(p)
    \/ MoveConflicts(p)
    \/ MoveUpdate(p)

NextRace == \E p \in Procs : StartRace(p) \/ StepRace(p) \/ Finish(p)

SpecRace == InitRace /\ [][NextRace]_vars

\* ------------------------------------------- booking invocations only
\* insert_appointment and check_availability, one invocation at a time
StartBooking(p) ==
    \/ \E a \in InsertInputs \cup BlankInsertInputs :
          StartInsert(p, a[1], a[2], a[3], a[4], a[5])
    \/ \E s \in Slots : StartCheck(p, s[1], s[2])
    \/ \E o \in offers, c \in BOOLEAN : ResumeCheck(p, o, c)

StepBooking(p) ==
    \/ InsertList(p)
    \/ InsertCreate(p)
    \/ CheckList(p)
    \/ FindProbe(p)

NextBooking == StartBooking(1) \/ StepBooking(1) \/ Finish(1)

SpecBooking == Init /\ [][NextBooking]_vars

\* ------------------------------------------ invocations that raise offers
\* check_availability and move_appointment, first calls and resumed calls,
\* one invocation at a time, on a calendar that may hold two appointments
ApptB ==
    [id |-> 2, calendarId |-> "primary",
     start |-> RomeInstant(IsoDate(Fri), HM(9, 0)),
     finish |-> RomeInstant(IsoDate(Fri), HM(10, 0)),
     attendee |-> EmailB, description |-> <<"T", ":", "P", ":">> \o PhoneB,
     email_norm |-> EmailB, phone_norm |-> PhoneB,
     allDay |-> FALSE]

InitOffering ==
    /\ cal \in {{ApptA}, {LegacyBlock}, {ApptA, ApptB}}
    /\ nextId = Cardinality(cal) + 1
    /\ \E c \in Configs : publicCalendarId = c[1] /\ localTz = c[2]
    /\ now \in NowChoices
    /\ offers = {}
    /\ proc = [p \in Procs |-> IdleProc]

StartOffering(p) ==
    \/ \E s \in Slots : StartCheck(p, s[1], s[2])
    \/ \E o \in offers, c \in BOOLEAN : ResumeCheck(p, o, c)
    \/ \E i \in {<<EmailA, None>>, <<None, None>>}, s \in Slots :
          StartMove(p, i[1], i[2], s[1], s[2])
    \/ \E o \in offers, c \in BOOLEAN : ResumeMove(p, o, c)

StepOffering(p) ==
    \/ CheckList(p)
    \/ FindProbe(p)
    \/ MoveList(p)
    \/ MoveConflicts(p)
    \/ MoveUpdate(p)

NextOffering == StartOffering(1) \/ StepOffering(1) \/ Finish(1)

SpecOffering == InitOffering /\ [][NextOffering]_vars

\* ------------------------------- find_next_available_slot called as a tool
\* a search whose first probe is the window one hour after the given start
StartFindFromNextHour(p, date, time, max_attempts) ==
    /\ CanStart(p)
    /\ proc' = [proc EXCEPT ![p] =
           [IdleProc EXCEPT !.op = "find", !.pc = "find",
                !.date = date, !.time = time,
                !.attempt = 1, !.max_attempts = max_attempts]]
    /\ UNCHANGED <<cal, nextId, publicCalendarId, localTz, now, offers>>

\* entry of find_next_available_slot(date, time, max_attempts): with
\* range(max_attempts) empty the loop body never runs
StartFind(p, date, time, max_attempts) ==
    /\ CanStart(p)
    /\ LET st == [IdleProc EXCEPT !.op = "find",
                      !.date = date, !.time = time,
                      !.attempt = 0, !.max_attempts = max_attempts]
       IN proc' = [proc EXCEPT ![p] =
              IF max_attempts <= 0
              THEN FindDone(st, NextSlot("rejected", "exhausted", NoDate, NoTime, 0))
              ELSE [st EXCEPT !.pc = "find"]]
    /\ UNCHANGED <<cal, nextId, publicCalendarId, localTz, now, offers>>

\* the values of max_attempts the search is called with
AttemptChoices == {0, 1, 2, DefaultMaxAttempts}

\* insert_appointment calls that fill the calendar, and searches
StartSearch(p) ==
    \/ \E a \in InsertInputs : StartInsert(p, a[1], a[2], a[3], a[4], a[5])
    \/ \E s \in Slots, m \in AttemptChoices : StartFind(p, s[1], s[2], m)

StepSearch(p) ==
    \/ InsertList(p)
    \/ InsertCreate(p)
    \/ FindProbe(p)

NextSearch == StartSearch(1) \/ StepSearch(1) \/ Finish(1)

SpecSearch == Init /\ [][NextSearch]_vars

\* --------------------------------------- Cancel and Move on stored records
\* an appointment stored with a normalized phone and no email at all
PhoneOnlyA ==
    [id |-> 1, calendarId |-> "primary",
     start |-> RomeInstant(IsoDate(Fri), HM(10, 0)),
     finish |-> RomeInstant(IsoDate(Fri), HM(11, 0)),
     attendee |-> None, description |-> <<"T", ":", "P", ":">> \o PhoneA,
     email_norm |-> None, phone_norm |-> PhoneA,
     allDay |-> FALSE]

\* an appointment stored with a normalized email and no phone at all
EmailOnlyA ==
    [id |-> 1, calendarId |-> "primary",
     start |-> RomeInstant(IsoDate(Fri), HM(10, 0)),
     finish |-> RomeInstant(IsoDate(Fri), HM(11, 0)),
     attendee |-> EmailA, description |-> <<"T", ":">>,
     email_norm |-> EmailA, phone_norm |-> None,
     allDay |-> FALSE]

\* a legacy event without normalized metadata: the attendee's email and the
\* phone in the description are written as the customer spelled them
LegacyPlusA ==
    [id |-> 1, calendarId |-> "primary",
     start |-> RomeInstant(IsoDate(Fri), HM(10, 0)),
     finish |-> RomeInstant(IsoDate(Fri), HM(11, 0)),
     attendee |-> EmailASpelled, description |-> <<"P", ":">> \o PhoneASpelled,
     email_norm |-> None, phone_norm |-> None,
     allDay |-> FALSE]

\* a second appointment of customer A, later the same day
ApptA2 ==
    [id |-> 2, calendarId |-> "primary",
     start |-> RomeInstant(IsoDate(Fri), HM(12, 0)),
     finish |-> RomeInstant(IsoDate(Fri), HM(13, 0)),
     attendee |-> EmailA, description |-> <<"T", ":", "P", ":">> \o PhoneA,
     email_norm |-> EmailA, phone_norm |-> PhoneA,
     allDay |-> FALSE]

\* the last digit of customer B's phone
PhoneBTail == <<"4">>

\* the identifiers Cancel and Move are called with: <<email, phone>>
CallerIdents ==
    Idents \cup {<<None, PhoneB>>, <<None, PhoneASpelled>>, <<EmailASpelled, None>>,
                 <<None, PhoneBTail>>}

InitIdentity ==
    /\ cal \in {{ApptA, ApptB}, {PhoneOnlyA, ApptB}, {EmailOnlyA, ApptB},
                {LegacyPlusA, ApptB}, {LegacyBlock}, {ApptA, ApptA2}}
    /\ nextId = Cardinality(cal) + 1
    /\ \E c \in Configs : publicCalendarId = c[1] /\ localTz = c[2]
    /\ now \in NowChoices
    /\ offers = {}
    /\ proc = [p \in Procs |-> IdleProc]

\* the new windows Move is called with: a free one and a weekend one
IdentitySlots == {<<IsoDate(Fri), HM(11, 0)>>, <<IsoDate(Sat), HM(10, 0)>>}

StartIdentity(p) ==
    \/ \E i \in CallerIdents : StartDelete(p, i[1], i[2])
    \/ \E i \in CallerIdents, s \in IdentitySlots :
          StartMove(p, i[1], i[2], s[1], s[2])
    \/ \E o \in offers, c \in BOOLEAN : ResumeMove(p, o, c)

StepIdentity(p) ==
    \/ DeleteList(p)
    \/ DeleteCall(p)
    \/ MoveList(p)
    \/ MoveConflicts(p)
    \/ FindProbe(p)
    \/ MoveUpdate(p)

NextIdentity == StartIdentity(1) \/ StepIdentity(1) \/ Finish(1)

SpecIdentity == InitIdentity /\ [][NextIdentity]_vars

\* ------------------------------------------- rescheduling, one call at a time
\* calendars with two appointments: two one-hour ones, and one at 9:00 next
\* to a block that fills the rest of the day
InitMove ==
    /\ cal \in {{ApptA, ApptB}, {LegacyBlock, ApptB}}
    /\ nextId = Cardinality(cal) + 1
    /\ \E c \in Configs : publicCalendarId = c[1] /\ localTz = c[2]
    /\ now \in NowChoices
    /\ offers = {}
    /\ proc = [p \in Procs |-> IdleProc]

\* the new windows Move is called with: 10:00 (taken by the other event),
\* 10:30 and a Saturday
MoveSlots ==
    {<<IsoDate(Fri), HM(10, 0)>>, <<IsoDate(Fri), HM(10, 30)>>,
     <<IsoDate(Sat), HM(10, 0)>>}

StartMoving(p) ==
    \/ \E i \in Idents, s \in MoveSlots : StartMove(p, i[1], i[2], s[1], s[2])
    \/ \E o \in offers, c \in BOOLEAN : ResumeMove(p, o, c)

StepMoving(p) ==
    \/ MoveList(p)
    \/ MoveConflicts(p)
    \/ FindProbe(p)
    \/ MoveUpdate(p)

NextMove == StartMoving(1) \/ StepMoving(1) \/ Finish(1)

SpecMove == InitMove /\ [][NextMove]_vars

\* ------------------------------------------- a Move resumed after an offer
\* ApptA after a Move to Friday 11:00
ApptALater ==
    [ApptA EXCEPT !.start = RomeInstant(IsoDate(Fri), HM(11, 0)),
                  !.finish = RomeInstant(IsoDate(Fri), HM(12, 0))]

\* what is kept of the Move of ApptB to Friday 10:00, answered with the offer
\* of 11:00 while ApptA was at 10:00
OfferToB ==
    [tool |-> "move", email |-> EmailB, phone |-> PhoneB,
     date |-> IsoDate(Fri), time |-> HM(10, 0),
     payload |-> [email |-> EmailB, phone |-> PhoneB,
                  original_date |-> IsoDate(Fri), original_time |-> HM(10, 0),
                  alternative_date |-> IsoDate(Fri),
                  alternative_time |-> HM(11, 0)]]

\* the offer is pending; ApptA is where it was, or has been moved onto the
\* offered window since
InitResume ==
    /\ cal \in {{ApptA, ApptB}, {ApptALater, ApptB}}
    /\ nextId = Cardinality(cal) + 1
    /\ \E c \in Configs : publicCalendarId = c[1] /\ localTz = c[2]
    /\ now \in NowChoices
    /\ offers = {OfferToB}
    /\ proc = [p \in Procs |-> IdleProc]

NextResume == StartMoving(1) \/ StepMoving(1) \/ Finish(1)

SpecResume == InitResume /\ [][NextResume]_vars

\* ------------------------------------- the day's slots and the single check
\* an all-day event on Friday: start {'date': ...}, no dateTime
AllDayFri ==
    [id |-> 1, calendarId |-> "primary",
     start |-> Fri * MinutesPerDay,
     finish |-> (Fri + 1) * MinutesPerDay,
     attendee |-> None, description |-> <<>>,
     email_norm |-> None, phone_norm |-> None,
     allDay |-> TRUE]

\* an appointment insert_appointment wrote for 12:30
ApptHalfPast ==
    [id |-> 2, calendarId |-> "primary",
     start |-> RomeInstant(IsoDate(Fri), HM(12, 30)),
     finish |-> RomeInstant(IsoDate(Fri), HM(13, 30)),
     attendee |-> EmailB, description |-> <<"T", ":", "P", ":">> \o PhoneB,
     email_norm |-> EmailB, phone_norm |-> PhoneB,
     allDay |-> FALSE]

InitSlots ==
    /\ cal \in {{}, {ApptA, ApptB}, {ApptA, ApptHalfPast}, {LegacyBlock},
                {AllDayFri}}
    /\ nextId = Cardinality(cal) + 1
    /\ \E c \in Configs : publicCalendarId = c[1] /\ localTz = c[2]
    /\ now \in NowChoices
    /\ offers = {}
    /\ proc = [p \in Procs |-> IdleProc]

\* the dates return_available_slots is called with
SlotDates == {IsoDate(Fri), DmyDate(Fri), IsoDate(Sat), IsoDate(HolidayMon)}

\* process 1 asks for the day's slots, process 2 checks single hourly slots
StartSlotsOrCheck ==
    \/ \E d \in SlotDates : StartSlots(1, d)
    \/ \E i \in 1..Len(HourlyStarts) : StartCheck(2, IsoDate(Fri), HourlyStarts[i])
    \/ \E o \in offers, c \in BOOLEAN : ResumeCheck(2, o, c)

StepSlotsOrCheck ==
    \/ SlotsList(1)
    \/ CheckList(2)
    \/ FindProbe(2)

NextSlots ==
    \/ StartSlotsOrCheck
    \/ StepSlotsOrCheck
    \/ \E p \in Procs : Finish(p)

SpecSlots == InitSlots /\ [][NextSlots]_vars

\* ------------------------------------------- every tool, one call at a time
\* the windows the tools are called with: an occupied one and a free one
\* written DD.MM.YYYY
CallSlots == {<<IsoDate(Fri), HM(10, 0)>>, <<DmyDate(Fri), HM(11, 0)>>}

InitCalls ==
    /\ cal \in {{ApptA}, {ApptA, ApptB}}
    /\ nextId = Cardinality(cal) + 1
    /\ publicCalendarId \in CalendarIds
    /\ localTz = "Europe/Rome"
    /\ now \in NowChoices
    /\ offers = {}
    /\ proc = [p \in Procs |-> IdleProc]

CallIdents == {<<EmailA, None>>, <<EmailB, PhoneB>>}

StartCalls(p) ==
    \/ \E s \in CallSlots : StartInsert(p, NameN, EmailASpelled, PhoneASpelled,
                                         s[1], s[2])
    \/ \E s \in CallSlots : StartCheck(p, s[1], s[2])
    \/ \E o \in offers, c \in BOOLEAN : ResumeCheck(p, o, c)
    \/ \E i \in CallIdents : StartDelete(p, i[1], i[2])
    \/ \E i \in CallIdents, s \in CallSlots : StartMove(p, i[1], i[2], s[1], s[2])
    \/ \E o \in offers, c \in BOOLEAN : ResumeMove(p, o, c)
    \/ \E s \in CallSlots : StartFind(p, s[1], s[2], DefaultMaxAttempts)
    \/ \E s \in CallSlots : StartSlots(p, s[1])

StepCalls(p) ==
    \/ InsertList(p)
    \/ InsertCreate(p)
    \/ CheckList(p)
    \/ FindProbe(p)
    \/ DeleteList(p)
    \/ DeleteCall(p)
    \/ MoveList(p)
    \/ MoveConflicts(p)
    \/ MoveUpdate(p)
    \/ SlotsList(p)

NextCalls == StartCalls(1) \/ StepCalls(1) \/ Finish(1)

SpecCalls == InitCalls /\ [][NextCalls]_vars

\* ------------------------------------------- the search late in the day
\* an event of Friday evening, 20:00 to midnight
LateBlock ==
    [id |-> 1, calendarId |-> "primary",
     start |-> RomeInstant(IsoDate(Fri), HM(20, 0)),
     finish |-> RomeInstant(IsoDate(Sat), HM(0, 0)),
     attendee |-> None, description |-> <<>>,
     email_norm |-> None, phone_norm |-> None,
     allDay |-> FALSE]

InitNight ==
    /\ cal \in {{LateBlock}, {LegacyBlock}, {ApptA, ApptB}}
    /\ nextId = Cardinality(cal) + 1
    /\ \E c \in Configs : publicCalendarId = c[1] /\ localTz = c[2]
    /\ now \in NowChoices
    /\ offers = {}
    /\ proc = [p \in Procs |-> IdleProc]

\* where the search starts: in the morning, in the afternoon, in the evening
NightSlots ==
    {<<DmyDate(Fri), HM(9, 0)>>, <<IsoDate(Fri), HM(16, 30)>>,
     <<IsoDate(Fri), HM(22, 0)>>}

NextNight ==
    \/ \E s \in NightSlots, m \in AttemptChoices : StartFind(1, s[1], s[2], m)
    \/ FindProbe(1)
    \/ Finish(1)

SpecNight == InitNight /\ [][NextNight]_vars

\* ---------------------------------------------------- parse_date_expression
\* '%d/%m/%Y' text of a day
SlashDate(d) == [fmt |-> "slash", day |-> d]

\* the ISO text of a day that the written date denotes
DateExpression(text) == Expression("date", 0, 0, FALSE, text)

\* days_ahead of the weekday branch
days_ahead(day_num, current_weekday, next) ==
    IF next
    THEN LET d0 == day_num - current_weekday
             d1 == IF d0 <= 0 THEN d0 + 7 ELSE d0
         IN IF d1 < 7 THEN d1 + 7 ELSE d1
    ELSE LET d0 == day_num - current_weekday
         IN IF d0 < 0 THEN d0 + 7 ELSE d0

\* the result for a target day: strftime('%Y-%m-%d')
ParsedDate(d) ==
    [NoResult EXCEPT !.status = "success", !.message = "parsed",
                     !.date = StrfDate(d * MinutesPerDay)]

\* a parser without the branch for ISO dates
parse_date_expression_no_iso(expression, today) ==
    CASE expression.kind = "today" -> ParsedDate(today)
      [] expression.kind = "tomorrow" -> ParsedDate(today + 1)
      [] expression.kind = "day_after_tomorrow" -> ParsedDate(today + 2)
      [] expression.kind = "next_week" -> ParsedDate(today + 7)
      [] expression.kind = "in_days" -> ParsedDate(today + expression.n)
      [] expression.kind = "weekday" ->
            ParsedDate(today + days_ahead(expression.weekday, Weekday(today),
                                          expression.next))
      [] expression.kind = "date" /\ expression.text.fmt = "slash" ->
            ParsedDate(expression.text.day)
      [] OTHER -> [NoResult EXCEPT !.status = "error", !.message = "could_not_parse"]

\* the branches of parse_date_expression in their order; today is the day of
\* datetime.now()
parse_date_expression(expression, today) ==
    CASE expression.kind = "today" -> ParsedDate(today)
      [] expression.kind = "tomorrow" -> ParsedDate(today + 1)
      [] expression.kind = "day_after_tomorrow" -> ParsedDate(today + 2)
      [] expression.kind = "next_week" -> ParsedDate(today + 7)
      [] expression.kind = "in_days" -> ParsedDate(today + expression.n)
      [] expression.kind = "weekday" ->
            ParsedDate(today + days_ahead(expression.weekday, Weekday(today),
                                          expression.next))
      [] expression.kind = "date" /\ expression.text.fmt = "iso" ->
            ParsedDate(expression.text.day)
      [] expression.kind = "date" /\ expression.text.fmt = "slash" ->
            ParsedDate(expression.text.day)
      [] OTHER -> [NoResult EXCEPT !.status = "error", !.message = "could_not_parse"]

\* a call of parse_date_expression
ParseExpression(p, expression) ==
    /\ CanStart(p)
    /\ proc' = [proc EXCEPT ![p] =
           Return([IdleProc EXCEPT !.op = "parse_date_expression",
                       !.expression = expression,
                       !.today = now \div MinutesPerDay],
                  parse_date_expression(expression, now \div MinutesPerDay))]
    /\ UNCHANGED <<cal, nextId, publicCalendarId, localTz, now, offers>>

\* a call of parse_date_expression on the date a previous call returned
ParseAgain(p) ==
    /\ proc[p].op \in {"parse_date_expression", "parse_again"}
    /\ proc[p].pc = "done" /\ proc[p].result.status = "success"
    /\ LET expression == DateExpression(proc[p].result.date)
       IN proc' = [proc EXCEPT ![p] =
              Return([IdleProc EXCEPT !.op = "parse_again",
                          !.expression = expression,
                          !.today = now \div MinutesPerDay],
                     parse_date_expression(expression, now \div MinutesPerDay))]
    /\ UNCHANGED <<cal, nextId, publicCalendarId, localTz, now, offers>>

\* the clock moves on to a later day of the week of 2025-12-01
ParseDays == 0..6
DayPasses ==
    /\ \E d \in ParseDays : d * MinutesPerDay > now /\ now' = d * MinutesPerDay
    /\ UNCHANGED <<cal, nextId, publicCalendarId, localTz, offers, proc>>

\* the expressions parse_date_expression is called with
InDaysChoices == {0, 3, 10}
Expressions ==
    {Expression(k, 0, 0, FALSE, NoDate) :
         k \in {"today", "tomorrow", "day_after_tomorrow", "next_week", "other"}}
    \cup {Expression("in_days", n, 0, FALSE, NoDate) : n \in InDaysChoices}
    \cup {Expression("weekday", 0, w, nx, NoDate) : w \in 0..6, nx \in BOOLEAN}
    \cup {DateExpression(t) : t \in {IsoDate(Fri), IsoDate(DayOf(1, 1)),
                                      SlashDate(Sat), DmyDate(Fri)}}

InitParse ==
    /\ cal = {}
    /\ nextId = 1
    /\ \E c \in Configs : publicCalendarId = c[1] /\ localTz = c[2]
    /\ \E d \in ParseDays : now = d * MinutesPerDay
    /\ offers = {}
    /\ proc = [p \in Procs |-> IdleProc]

NextParse ==
    \/ \E x \in Expressions : ParseExpression(1, x)
    \/ ParseAgain(1)
    \/ DayPasses
    \/ Finish(1)

SpecParse == InitParse /\ [][NextParse]_vars

\* ------------------------------------------------ the policy gate alone
\* a call of is_it_in_work_hours(date, time): the boolean it returns
CallWorkHours(p, date, time) ==
    /\ CanStart(p)
    /\ proc' = [proc EXCEPT ![p] =
           Return([IdleProc EXCEPT !.op = "is_it_in_work_hours",
                       !.date = date, !.time = time],
                  [NoResult EXCEPT !.is_available =
                       IF is_it_in_work_hours(date, time) THEN "True" ELSE "False"])]
    /\ UNCHANGED <<cal, nextId, publicCalendarId, localTz, now, offers>>

\* the dates and times the gate is called with: every day from 2025-12-01 to
\* 2026-01-06, every hour of the day, on the hour, at half past and at :59
GateDays == 0..DayOf(1, 6)
GateMinutes == {0, 30, 59}
GateDates == {IsoDate(d) : d \in GateDays} \cup {DmyDate(Fri)}
GateTimes == {HM(h, m) : h \in 0..23, m \in GateMinutes}

NextGate ==
    \/ \E d \in GateDates, t \in GateTimes : CallWorkHours(1, d, t)
    \/ Finish(1)

SpecGate == Init /\ [][NextGate]_vars

\* ------------------------------------------------ booking, then cancelling
\* another customer's appointment, Friday 9:00
OtherAppt == [ApptB EXCEPT !.id = Cardinality({ApptB})]

\* the identifiers Cancel is called with after an Insert with EmailASpelled and
\* PhoneASpelled: the email alone or the phone alone, in two spellings
RoundTripIdents ==
    {<<EmailA, None>>, <<EmailASpelled, None>>,
     <<None, PhoneA>>, <<None, PhoneASpelled>>}

InitRoundTrip ==
    /\ cal \in {{}, {OtherAppt}}
    /\ nextId = Cardinality(cal) + 1
    /\ \E c \in Configs : publicCalendarId = c[1] /\ localTz = c[2]
    /\ now \in NowChoices
    /\ offers = {}
    /\ proc = [p \in Procs |-> IdleProc]

NextRoundTrip ==
    \/ \E a \in InsertInputs : StartInsert(1, a[1], a[2], a[3], a[4], a[5])
    \/ \E i \in RoundTripIdents : StartDelete(1, i[1], i[2])
    \/ InsertList(1)
    \/ InsertCreate(1)
    \/ FindProbe(1)
    \/ DeleteList(1)
    \/ DeleteCall(1)
    \/ Finish(1)

SpecRoundTrip == InitRoundTrip /\ [][NextRoundTrip]_vars

\* ------------------------------------------------ the Telegram bridge
\* handle_message, SCENARIO 1, when runner.run_async raises while the resumed
\* run is in progress: the decision has been handed to the runner, control
\* jumps to the handler's outer `except Exception`, and the assignment
\* pending_approval = None is skipped
HandleDecisionRunRaises(p, offer, confirmed) ==
    /\ CanStart(p)
    /\ offer \in offers
    /\ proc' = [proc EXCEPT ![p] =
           Return([IdleProc EXCEPT !.op = offer.tool,
                       !.email = offer.email, !.phone = offer.phone,
                       !.date = offer.date, !.time = offer.time,
                       !.conf = [present |-> TRUE, confirmed |-> confirmed,
                                 payload |-> offer.payload]],
                  [NoResult EXCEPT !.status = "error", !.message = "run_raised"])]
    /\ UNCHANGED <<cal, nextId, publicCalendarId, localTz, now, offers>>

\* the replies that count as approval and as refusal
YesSet ==
    {<<"y", "e", "s">>, <<"y">>, <<"o", "k">>,
     <<"a", "p", "p", "r", "o", "v", "e">>, <<"s", "u", "r", "e">>,
     <<"y", "e", "a", "h">>, <<"y", "e", "p">>}
NoSet ==
    {<<"n", "o">>, <<"n">>, <<"r", "e", "j", "e", "c", "t">>,
     <<"n", "o", "p", "e">>, <<"c", "a", "n", "c", "e", "l">>}

approved(user_message) == Strip(Lower(user_message)) \in YesSet
\* a reading that takes every reply that is not an approval for a refusal
rejectedAnythingElse(user_message) == Strip(Lower(user_message)) \notin YesSet
rejected(user_message) == Strip(Lower(user_message)) \in NoSet

\* handle_message, SCENARIO 1: a message arrives while pending_approval is set.
\* A yes/no reply goes on to the runner; anything else is answered with the
\* re-prompt and the handler returns
HandleMessage(q, pending_approval, user_message) ==
    /\ CanStart(q)
    /\ pending_approval \in offers
    /\ \A r \in Procs : proc[r].pending_approval # pending_approval
    /\ LET st == [IdleProc EXCEPT !.op = "handle_message",
                      !.reply = user_message,
                      !.pending_approval = pending_approval]
       IN proc' = [proc EXCEPT ![q] =
              IF approved(user_message) \/ rejected(user_message)
              THEN [st EXCEPT !.pc = "hm_run"]
              ELSE Return(st, [NoResult EXCEPT !.message = "please_respond_yes_or_no"])]
    /\ UNCHANGED <<cal, nextId, publicCalendarId, localTz, now, offers>>

\* runner.run_async(new_message = the confirmation response, invocation_id =
\* the stored one): the paused tool is called again with the decision
RunResumed(q, p) ==
    /\ proc[q].op = "handle_message" /\ proc[q].pc = "hm_run"
    /\ \/ ResumeCheck(p, proc[q].pending_approval, approved(proc[q].reply))
       \/ ResumeMove(p, proc[q].pending_approval, approved(proc[q].reply))

\* the run is over: pending_approval is cleared and the texts are sent
HandleMessageReturns(q, p) ==
    /\ proc[q].op = "handle_message" /\ proc[q].pc = "hm_run"
    /\ proc[p].pc = "done" /\ proc[p].conf.present
    /\ proc[p].conf.payload = proc[q].pending_approval.payload
    /\ proc' = [proc EXCEPT
           ![p] = IdleProc,
           ![q] = Return([@ EXCEPT !.pending_approval = NoApproval],
                         [NoResult EXCEPT !.status = proc[p].result.status,
                                          !.message = proc[p].result.message])]
    /\ UNCHANGED <<cal, nextId, publicCalendarId, localTz, now, offers>>

\* an offer of check_availability: Friday 10:00 asked (as 05.12.2025), 11:00
\* offered
OfferOfCheck ==
    [tool |-> "check", email |-> None, phone |-> None,
     date |-> DmyDate(Fri), time |-> HM(10, 0),
     payload |-> [email |-> None, phone |-> None,
                  original_date |-> DmyDate(Fri), original_time |-> HM(10, 0),
                  alternative_date |-> IsoDate(Fri),
                  alternative_time |-> HM(11, 0)]]

\* what users type
Replies ==
    {<<"y", "e", "s">>, <<" ", "Y", "E", "S", " ">>, <<"O", "k">>,
     <<"n", "o">>, <<"N">>, <<"c", "a", "n", "c", "e", "l">>,
     <<"y", "e", "s", "!">>, <<"n", "o", "t", " ", "y", "e", "t">>,
     <<"l", "a", "t", "e", "r">>, <<" ">>}

\* one user with a pending approval, for a Move or for a check
InitReply ==
    /\ cal \in {{ApptA, ApptB}, {ApptALater, ApptB}}
    /\ nextId = Cardinality(cal) + 1
    /\ \E c \in Configs : publicCalendarId = c[1] /\ localTz = c[2]
    /\ now \in NowChoices
    /\ offers \in {{OfferToB}, {OfferOfCheck}}
    /\ proc = [p \in Procs |-> IdleProc]

NextReply ==
    \/ \E o \in offers, m \in Replies : HandleMessage(2, o, m)
    \/ RunResumed(2, 1)
    \/ StepMoving(1)
    \/ HandleMessageReturns(2, 1)
    \/ Finish(2)

SpecReply == InitReply /\ [][NextReply]_vars

\* the messages the bridge handles for one user, one at a time: requests that
\* may raise an offer, and yes/no replies to a pending offer
StartBridge(p) ==
    \/ StartOffering(p)
    \/ \E o \in offers, c \in BOOLEAN : HandleDecisionRunRaises(p, o, c)

NextBridge == StartBridge(1) \/ StepOffering(1) \/ Finish(1)

SpecBridge == InitOffering /\ [][NextBridge]_vars

\* ------------------------------------------------------------------ claims
\* the instant a date text and a time text denote, read field by field
InstantOf(date, time) == date.day * 1440 + time.hour * 60 + time.minute

\* some event of the primary calendar overlaps the hour that starts at t
Occupied(t) ==
    \E e \in cal : e.calendarId = "primary" /\ Overlap(t, t + 60, e.start, e.finish)

LastCall(st) == st.calls[Len(st.calls)]

KindsOf(st) == {st.calls[i].kind : i \in 1..Len(st.calls)}

\* C1: an invocation of insert_appointment issues the remote create only
\* after its own conflict query for the same window [start, start+1h) returned
\* no events; when that query returns an event the invocation issues no create
\* and returns 'rejected'.
InsertCreateOnlyAfterFreeRecheck ==
    \A p \in Procs :
        proc[p].op = "insert" =>
            LET c == proc[p].calls
                start == InstantOf(proc[p].date, proc[p].time)
            IN /\ \A i \in 1..Len(c) :
                     c[i].kind = "insert" =>
                         /\ c[i].a = start /\ c[i].b = start + 60
                         /\ \E j \in 1..(i - 1) :
                               /\ c[j].kind = "list" /\ c[j].n = 0
                               /\ c[j].a = c[i].a /\ c[j].b = c[i].b
               /\ (Len(c) >= 1 /\ c[1].n > 0) =>
                     /\ "insert" \notin KindsOf(proc[p])
                     /\ proc[p].pc = "done" => proc[p].result.status = "rejected"

\* C1 witness: one invocation has created its event after a free re-check
\* while another, whose re-check found an event, was rejected
InsertCreatedAndInsertRejected ==
    \E p, q \in Procs :
        /\ proc[p].op = "insert" /\ proc[p].pc = "done"
        /\ proc[p].result.status = "approved"
        /\ LastCall(proc[p]).kind = "insert"
        /\ proc[q].op = "insert" /\ proc[q].pc = "done"
        /\ proc[q].calls # <<>> /\ proc[q].calls[1].n > 0
        /\ proc[q].result.status = "rejected"

\* C2: no two appointments of one calendar have overlapping half-open windows
NoOverlappingAppointments ==
    \A e1, e2 \in cal :
        (e1.id # e2.id /\ e1.calendarId = e2.calendarId)
            => ~Overlap(e1.start, e1.finish, e2.start, e2.finish)

\* two events of the primary calendar overlap
PrimaryOverlap(c) ==
    \E e1, e2 \in c :
        /\ e1.id # e2.id
        /\ e1.calendarId = "primary" /\ e2.calendarId = "primary"
        /\ Overlap(e1.start, e1.finish, e2.start, e2.finish)

\* C3: the re-check does not make check and write atomic.  An invocation that
\* has passed its re-check issues its mutating call whatever the calendar
\* holds by then: unless the call itself fails, the write goes through and
\* the invocation is approved, and when another event has taken the window
\* in the meantime the calendar then holds two overlapping appointments.
WriteAfterRecheckIsUnguarded ==
    [][\A p \in Procs :
          (/\ proc[p].pc \in {"ins_create", "mv_update"}
           /\ proc'[p].pc = "done"
           /\ proc'[p].result.message # "http_error")
          => LET w == LastCall(proc'[p])
                 id == proc'[p].result.order_id
             IN /\ proc'[p].result.status = "approved"
                /\ w.kind \in {"insert", "update"} /\ w.n = 1
                /\ \E e \in cal' : /\ e.id = id /\ e.calendarId = "primary"
                                   /\ e.start = w.a /\ e.finish = w.b
                /\ (\E e \in cal : /\ e.id # id /\ e.calendarId = "primary"
                                   /\ Overlap(w.a, w.b, e.start, e.finish))
                      => PrimaryOverlap(cal')]_vars

\* C3 witness: two invocations, an Insert and an Insert or a Move, were both
\* approved for the same window after conflict queries that found it free,
\* and the calendar holds two overlapping appointments
RaceLeftOverlap ==
    /\ PrimaryOverlap(cal)
    /\ \E p, q \in Procs :
          /\ p # q
          /\ proc[p].op = "insert" /\ proc[q].op \in {"insert", "move"}
          /\ proc[p].pc = "done" /\ proc[q].pc = "done"
          /\ proc[p].result.status = "approved"
          /\ proc[q].result.status = "approved"
          /\ LastCall(proc[p]).a = LastCall(proc[q]).a
          /\ proc[p].calls[1].n = 0
          /\ proc[q].events = <<>>

\* '' or whitespace only
EmptyOrSpaces(s) == \A i \in 1..Len(s) : s[i] = " "

\* the fields of an Insert invocation that are empty or whitespace-only, in
\* the order name, email, phone, date, time
BlankFieldsOf(st) ==
    SelectSeq(<<"name", "email", "phone", "date", "time">>,
              LAMBDA f :
                  \/ f = "name" /\ EmptyOrSpaces(st.full_name)
                  \/ f = "email" /\ EmptyOrSpaces(st.email)
                  \/ f = "phone" /\ EmptyOrSpaces(st.phone)
                  \/ f = "date" /\ st.date.fmt \in {"empty", "blank"}
                  \/ f = "time" /\ st.time.fmt \in {"empty", "blank"})

\* C4: insert_appointment called with a (date, time) for which
\* is_it_in_work_hours is false returns 'rejected' and creates no event,
\* whether or not the window is occupied.
InsertRejectedOutsideWorkHours ==
    \A p \in Procs :
        (/\ proc[p].op = "insert"
         /\ BlankFieldsOf(proc[p]) = <<>>
         /\ ~is_it_in_work_hours(proc[p].date, proc[p].time))
        => /\ proc[p].pc = "done"
           /\ proc[p].result.status = "rejected"
           /\ "insert" \notin KindsOf(proc[p])

\* C4 witness: an Insert outside work hours, for an occupied window, returned
InsertOutsideHoursOccupied ==
    \E p \in Procs :
        /\ proc[p].op = "insert" /\ proc[p].pc = "done"
        /\ proc[p].result.message = "outside_hours"
        /\ Occupied(InstantOf(proc[p].date, proc[p].time))

\* C5: insert_appointment with an empty or whitespace-only name, email,
\* phone, date or time returns 'rejected' with 'missing' listing exactly
\* those fields in the order name, email, phone, date, time, and issues no
\* remote call.
InsertMissingFieldsRejected ==
    \A p \in Procs :
        (proc[p].op = "insert" /\ BlankFieldsOf(proc[p]) # <<>>)
        => /\ proc[p].pc = "done"
           /\ proc[p].result.status = "rejected"
           /\ proc[p].result.missing = BlankFieldsOf(proc[p])
           /\ proc[p].calls = <<>>

\* C5 witness: an Insert with a whitespace-only email and time
InsertWithBlankEmailAndTime ==
    \E p \in Procs :
        /\ proc[p].op = "insert" /\ proc[p].pc = "done"
        /\ proc[p].email = <<" ">> /\ proc[p].time.fmt = "blank"
        /\ proc[p].result.missing = <<"email", "time">>

\* every remote call of the invocation succeeded
NoCallFailed(st) == \A i \in 1..Len(st.calls) : st.calls[i].n >= 0

\* a first call of check_availability that has returned
FirstCheckDone(p) ==
    proc[p].op = "check" /\ ~proc[p].conf.present /\ proc[p].pc = "done"

\* the instant the result's alternative_date / alternative_time denote
AlternativeInstant(r) == InstantOf(r.alternative_date, r.alternative_time)

\* C6: a first call of check_availability for a bookable window that no
\* calendar event overlaps returns 'approved' with is_available true and
\* requested_date / requested_time equal to the inputs, after one query and
\* without raising a confirmation request.
CheckFreeWindowApproved ==
    \A p \in Procs :
        (/\ FirstCheckDone(p)
         /\ is_it_in_work_hours(proc[p].date, proc[p].time)
         /\ ~Occupied(InstantOf(proc[p].date, proc[p].time))
         /\ NoCallFailed(proc[p]))
        => /\ proc[p].result.status = "approved"
           /\ proc[p].result.is_available = "True"
           /\ proc[p].result.requested_date = proc[p].date
           /\ proc[p].result.requested_time = proc[p].time
           /\ Len(proc[p].calls) = 1
           /\ proc[p].requests = <<>>

\* C6 witness: a free window that starts when an appointment ends (the date
\* given as DD.MM.YYYY) or ends when one starts was approved
CheckApprovedNextToAppointment ==
    \E p \in Procs :
        /\ FirstCheckDone(p)
        /\ proc[p].result.status = "approved"
        /\ proc[p].result.requested_date = proc[p].date
        /\ \E e \in cal :
              \/ e.finish = InstantOf(proc[p].date, proc[p].time)
              \/ e.start = InstantOf(proc[p].date, proc[p].time) + 60

\* C7: a first call of check_availability for a bookable, occupied window,
\* whose search finds a free window within 10 attempts, returns 'pending'
\* carrying that window as alternative_date / alternative_time, and raises
\* exactly one confirmation request, whose payload holds the original
\* date / time and the same alternative date / time.
CheckOccupiedOffersAlternative ==
    \A p \in Procs :
        (/\ FirstCheckDone(p)
         /\ Len(proc[p].calls) >= 2
         /\ proc[p].calls[1].n > 0
         /\ LastCall(proc[p]).n = 0)
        => LET r == proc[p].result
               found == LastCall(proc[p])
           IN /\ Len(proc[p].calls) <= 1 + 10
              /\ r.status = "pending"
              /\ r.alternative_date.fmt = "iso" /\ r.alternative_time.fmt = "hm"
              /\ AlternativeInstant(r) = found.a
              /\ found.b = found.a + 60
              /\ \E k \in 0..9 :
                    found.a = InstantOf(proc[p].date, proc[p].time) + k * 60
              /\ Len(proc[p].requests) = 1
              /\ proc[p].requests[1].original_date = proc[p].date
              /\ proc[p].requests[1].original_time = proc[p].time
              /\ proc[p].requests[1].alternative_date = r.alternative_date
              /\ proc[p].requests[1].alternative_time = r.alternative_time
              /\ \E o \in offers : /\ o.tool = "check"
                                   /\ o.payload = proc[p].requests[1]

\* C7 witness: the 09:30 window is occupied and the offer is for a later
\* window that is free, at half past the hour
CheckPendingAtHalfPast ==
    \E p \in Procs :
        /\ FirstCheckDone(p)
        /\ proc[p].result.status = "pending"
        /\ proc[p].time = HM(9, 30)
        /\ proc[p].result.alternative_time.minute = 30
        /\ AlternativeInstant(proc[p].result) > InstantOf(proc[p].date, proc[p].time)
        /\ ~Occupied(AlternativeInstant(proc[p].result))

\* C8: a first call of check_availability for an occupied window with no free
\* window among the 10 probed returns 'rejected' and raises no confirmation
\* request.
CheckExhaustedRejected ==
    \A p \in Procs :
        (/\ FirstCheckDone(p)
         /\ proc[p].calls # <<>> /\ proc[p].calls[1].n > 0
         /\ \A k \in 0..9 :
               Occupied(InstantOf(proc[p].date, proc[p].time) + k * 60))
        => /\ proc[p].result.status = "rejected"
           /\ proc[p].requests = <<>>

\* C8 witness: all 10 windows were probed and found occupied
CheckProbedTenOccupied ==
    \E p \in Procs :
        /\ FirstCheckDone(p)
        /\ Len(proc[p].calls) = 1 + 10
        /\ \A i \in 1..Len(proc[p].calls) : proc[p].calls[i].n > 0
        /\ proc[p].result.message = "occupied_no_alternative"

\* C9: check_availability resumed with confirmed=true and the offer's payload
\* returns 'approved' with requested_date / requested_time equal to the
\* payload's alternative date / time.
ResumeConfirmedApprovesAlternative ==
    \A p \in Procs :
        (/\ proc[p].op = "check" /\ proc[p].conf.present
         /\ proc[p].conf.confirmed)
        => /\ proc[p].pc = "done"
           /\ proc[p].result.status = "approved"
           /\ proc[p].result.is_available = "True"
           /\ proc[p].result.requested_date = proc[p].conf.payload.alternative_date
           /\ proc[p].result.requested_time = proc[p].conf.payload.alternative_time
           /\ proc[p].conf.payload.original_date = proc[p].date
           /\ proc[p].conf.payload.original_time = proc[p].time

\* C9 witness: the approved window is one hour after the requested one
ResumeApprovedOneHourLater ==
    \E p \in Procs :
        /\ proc[p].op = "check" /\ proc[p].conf.present
        /\ proc[p].conf.confirmed /\ proc[p].pc = "done"
        /\ InstantOf(proc[p].result.requested_date, proc[p].result.requested_time)
              = InstantOf(proc[p].date, proc[p].time) + 60

\* C10: check_availability or move_appointment resumed with confirmed=false
\* returns 'rejected' at once, without any remote call, and the calendar is
\* unchanged.
ResumeDeclinedHasNoEffect ==
    [][\A p \in Procs :
          (/\ proc[p].pc = "idle" /\ proc'[p].pc # "idle"
           /\ proc'[p].conf.present /\ ~proc'[p].conf.confirmed)
          => /\ proc'[p].op \in {"check", "move"}
             /\ proc'[p].pc = "done"
             /\ proc'[p].result.status = "rejected"
             /\ proc'[p].calls = <<>>
             /\ cal' = cal /\ nextId' = nextId]_vars

\* C10 witness: a declined Move offer, with the appointment still in place
MoveDeclined ==
    \E p \in Procs :
        /\ proc[p].op = "move" /\ proc[p].conf.present
        /\ ~proc[p].conf.confirmed /\ proc[p].pc = "done"
        /\ proc[p].result.message = "declined"
        /\ cal # {}

\* C11: once a yes/no decision for a pending offer has been delivered to the
\* runner, the offer is no longer pending, on every path, so no later message
\* can be delivered as a second decision for it.
DecisionConsumesOffer ==
    [][\A p \in Procs :
          (proc[p].pc = "idle" /\ proc'[p].conf.present)
          => \A o \in offers' : o.payload # proc'[p].conf.payload]_vars

\* a search called as a tool
IsSearch(p) == proc[p].op = "find"

\* the k-th window a search probes (k = 1 is the starting window itself)
ProbedWindow(p, k) == InstantOf(proc[p].date, proc[p].time) + (k - 1) * 60

\* C12: find_next_available_slot issues at most max_attempts queries, exactly
\* max_attempts when every probed window is occupied; it probes the windows
\* start, start+1h, ... in this order; and when it returns 'approved' every
\* window probed before the returned one was occupied, the returned one is
\* free and attempts_checked counts the windows probed.
SearchBoundedAndEarliest ==
    \A p \in Procs :
        IsSearch(p) =>
            LET c == proc[p].calls
                r == proc[p].result
            IN /\ Len(c) <= proc[p].max_attempts \/ Len(c) = 0
               /\ \A i \in 1..Len(c) :
                     /\ c[i].kind = "list"
                     /\ c[i].a = ProbedWindow(p, i) /\ c[i].b = c[i].a + 60
                     /\ i < Len(c) => c[i].n > 0 /\ Occupied(c[i].a)
               /\ (proc[p].pc = "done" /\ r.status = "approved") =>
                     /\ Len(c) >= 1 /\ LastCall(proc[p]).n = 0
                     /\ InstantOf(r.message_date, r.message_time)
                            = ProbedWindow(p, Len(c))
                     /\ ~Occupied(ProbedWindow(p, Len(c)))
                     /\ r.attempts_checked = Len(c)
               /\ (/\ proc[p].pc = "done"
                   /\ \A i \in 1..Len(c) : c[i].n > 0) =>
                     /\ r.status = "rejected"
                     /\ Len(c) = IF proc[p].max_attempts > 0
                                 THEN proc[p].max_attempts ELSE 0

\* C12 witness: a search of 10 attempts ran out on 10 occupied windows, or a
\* search found a free window at its third probe
SearchExhaustedTenOrFoundThird ==
    \E p \in Procs :
        /\ IsSearch(p) /\ proc[p].pc = "done"
        /\ \/ /\ Len(proc[p].calls) = 10
              /\ proc[p].max_attempts = 10
              /\ proc[p].result.status = "rejected"
              /\ \A i \in 1..10 : proc[p].calls[i].n > 0
           \/ /\ Len(proc[p].calls) = 3
              /\ proc[p].result.status = "approved"
              /\ proc[p].result.attempts_checked = 3

\* C13: when a query fails during find_next_available_slot the search stops
\* (the failed query is its last one), its result differs from the one of an
\* exhausted search, and the result carries the number of attempts checked so
\* far (the windows probed before the failure, or those and the failed one).
SearchFailureCarriesAttempts ==
    \A p \in Procs :
        (IsSearch(p) /\ \E i \in 1..Len(proc[p].calls) : proc[p].calls[i].n < 0)
        => /\ LastCall(proc[p]).n < 0
           /\ \A i \in 1..(Len(proc[p].calls) - 1) : proc[p].calls[i].n >= 0
           /\ proc[p].pc = "done"
           /\ proc[p].result.message # "exhausted"
           /\ proc[p].result.attempts_checked
                 \in {Len(proc[p].calls) - 1, Len(proc[p].calls)}

\* C14: an invocation of check_availability, insert_appointment or
\* move_appointment one of whose remote calls failed (the queries of the
\* alternative-slot search included) reports a remote failure, never an
\* occupied window without alternative.
RemoteFailureReportedAsFailure ==
    \A p \in Procs :
        (/\ proc[p].op \in {"check", "insert", "move"}
         /\ proc[p].pc = "done"
         /\ ~NoCallFailed(proc[p]))
        => /\ proc[p].result.message = "http_error"
           /\ proc[p].result.message # "occupied_no_alternative"

\* the normal form of the identifiers used as inputs
Canonical(x) ==
    IF x = PhoneASpelled THEN PhoneA
    ELSE IF x = EmailASpelled THEN EmailA
    ELSE x

\* a Cancel or Move invocation that has received a non-empty listing of the
\* upcoming events
Listed(p) ==
    /\ proc[p].op \in {"delete", "move"}
    /\ proc[p].calls # <<>>
    /\ proc[p].calls[1].kind = "list_upcoming" /\ proc[p].calls[1].n >= 1

\* e is a record insert_appointment stored for a customer other than the one
\* the identifiers of st name
OfAnotherCustomer(e, st) ==
    /\ e.email_norm \notin {None, Canonical(st.email)}
    /\ e.phone_norm \notin {None, Canonical(st.phone)}
    /\ e.attendee = e.email_norm
    /\ e.description = <<"T", ":", "P", ":">> \o e.phone_norm

\* the invocation of p has located event e
Located(p, e) ==
    /\ proc[p].event.id = e.id
    /\ proc[p].result.message \notin {"not_found", "no_upcoming", "exception"}

\* C15: Cancel and Move match with OR semantics.  A call that supplies only a
\* phone locates the first upcoming appointment whose stored normalized phone
\* equals the normalized supplied phone, whether or not that appointment has
\* a stored email; a call that supplies only an email locates the first one
\* whose stored normalized email equals the normalized supplied email,
\* whatever its phone.  (The events listed before it are records of other
\* customers.)
MatchIsOrOverEmailAndPhone ==
    \A p \in Procs :
        Listed(p) =>
            \A i \in 1..Len(proc[p].events) :
                LET e == proc[p].events[i]
                    st == proc[p]
                IN (/\ \/ /\ st.email = None /\ st.phone # None
                          /\ e.phone_norm = Canonical(st.phone)
                       \/ /\ st.phone = None /\ st.email # None
                          /\ e.email_norm = Canonical(st.email)
                    /\ \A j \in 1..(i - 1) : OfAnotherCustomer(st.events[j], st))
                   => Located(p, e)

\* C15 witness: a Cancel that supplied only a phone, listed after another
\* customer's appointment an appointment that has no stored email, and
\* deleted it
CancelByPhoneOfRecordWithoutEmail ==
    \E p \in Procs :
        /\ proc[p].op = "delete" /\ proc[p].pc = "done"
        /\ proc[p].email = None /\ proc[p].phone = PhoneASpelled
        /\ proc[p].result.status = "approved"
        /\ Len(proc[p].events) = 2
        /\ proc[p].event = proc[p].events[2]
        /\ proc[p].event.phone_norm = PhoneA
        /\ proc[p].event.email_norm = None /\ proc[p].event.attendee = None

\* a legacy event: no normalized metadata is stored with it
IsLegacy(e) == e.email_norm = None /\ e.phone_norm = None

\* the phone written in a legacy description, after the label "P:"
PhoneWrittenIn(e) == SubSeq(e.description, 3, Len(e.description))

\* C16: for a legacy appointment, listed first, Cancel locates it when the
\* supplied email is the normal form of its attendee's email, and when the
\* supplied phone is the normal form of the phone written in its description,
\* a leading '+' included.
CancelMatchesLegacyRecord ==
    \A p \in Procs :
        (/\ Listed(p) /\ proc[p].op = "delete"
         /\ IsLegacy(proc[p].events[1])
         /\ \/ /\ proc[p].email # None
               /\ Canonical(proc[p].email) = Canonical(proc[p].events[1].attendee)
            \/ /\ proc[p].phone # None
               /\ Canonical(proc[p].phone)
                     = Canonical(PhoneWrittenIn(proc[p].events[1])))
        => Located(p, proc[p].events[1])

\* C17: Cancel and Move called with neither email nor phone end in the
\* validation error, which is not the not-found result, and issue no remote call
NoIdentifierIsValidationError ==
    \A p \in Procs :
        (/\ proc[p].pc = "done"
         /\ proc[p].op \in {"delete", "move"}
         /\ ~proc[p].conf.present
         /\ Falsy(proc[p].email) /\ Falsy(proc[p].phone))
        => /\ proc[p].result.status = "rejected"
           /\ proc[p].result.message = "need_identifier"
           /\ proc[p].calls = <<>>

\* the upcoming events of the primary calendar that the identifiers of st match
MatchingUpcoming(st) ==
    {e \in EventsUpcoming : MatchEvent(e, st.email, st.phone).matches}

\* C18: a successful Cancel deletes exactly one event, the earliest-starting
\* upcoming event that matches the supplied identifiers, and leaves every
\* other event unchanged; when no upcoming event matches, Cancel returns
\* 'rejected', issues no delete and leaves the calendar unchanged
CancelDeletesEarliestMatchOnly ==
    [][\A p \in Procs :
        (proc'[p].op = "delete" /\ proc[p].pc # "done" /\ proc'[p].pc = "done")
        => LET st == proc'[p]
               matching == MatchingUpcoming(st)
           IN /\ st.result.status = "approved"
                 => \E e \in matching :
                       /\ e.id = st.result.order_id
                       /\ \A f \in matching : e.start <= f.start
                       /\ cal' = cal \ {e}
                       /\ Cardinality(cal') = Cardinality(cal) - 1
              /\ matching = {}
                 => /\ st.result.status = "rejected"
                    /\ cal' = cal
                    /\ \A i \in 1..Len(st.calls) : st.calls[i].kind # "delete"]_vars

\* a Cancel by email that found two appointments of the customer and deleted
\* the earlier one, the later one still stored
CancelledEarlierOfTwo ==
    \E p \in Procs :
        /\ proc[p].op = "delete" /\ proc[p].pc = "done"
        /\ proc[p].result.status = "approved"
        /\ Len(proc[p].events) = 2
        /\ \A i \in 1..2 :
              MatchEvent(proc[p].events[i], proc[p].email, proc[p].phone).matches
        /\ proc[p].events[1].start < proc[p].events[2].start
        /\ proc[p].result.order_id = proc[p].events[1].id
        /\ cal = {proc[p].events[2]}

\* the invocation of p is a Move that ends, in this step, with 'rejected' or
\* 'pending'
MoveEndsUnapproved(p) ==
    /\ proc'[p].op = "move"
    /\ proc[p].pc # "done" /\ proc'[p].pc = "done"
    /\ proc'[p].result.status \in {"rejected", "pending"}

\* the invocation has issued no update call, the calendar is as it was and
\* the appointment it located (if it located one) is stored as it was listed
MoveWroteNothing(p) ==
    /\ "update" \notin KindsOf(proc'[p])
    /\ cal' = cal
    /\ proc'[p].event.id # 0 => proc'[p].event \in cal'

MoveChangesOnlyStartAndEnd ==
    [][\A p \in Procs :
          (/\ proc'[p].op = "move"
           /\ proc[p].pc # "done" /\ proc'[p].pc = "done"
           /\ proc'[p].result.status = "approved")
          => \E e \in cal, moved \in cal' :
                /\ e.id = proc'[p].result.order_id
                /\ moved = [e EXCEPT !.start = moved.start,
                                     !.finish = moved.finish]
                /\ cal' \ {moved} = cal \ {e}
                /\ Cardinality(cal') = Cardinality(cal)]_vars

\* a Move by email that put the 10:00 appointment of customer A on another
\* start, the 9:00 appointment of customer B stored as before
MovedApptANextToApptB ==
    \E p \in Procs :
        /\ proc[p].op = "move" /\ proc[p].pc = "done"
        /\ proc[p].result.status = "approved"
        /\ proc[p].result.order_id = ApptA.id
        /\ ApptB \in cal
        /\ \E e \in cal :
              /\ e.id = ApptA.id /\ e.start # ApptA.start
              /\ e.email_norm = EmailA /\ e.phone_norm = PhoneA

\* a finished Move that located an appointment whose window, as listed,
\* overlaps the new bookable window, while no other event of the primary
\* calendar overlaps that window, and none of whose remote calls failed
MoveOntoOwnWindow(p) ==
    LET st == proc[p]
        start == RomeInstant(st.date, st.time)
    IN /\ st.op = "move" /\ st.pc = "done"
       /\ st.event.id # 0
       /\ is_it_in_work_hours(st.date, st.time)
       /\ Overlap(start, start + Duration, st.event.start, st.event.finish)
       /\ \A e \in cal : (e.calendarId = "primary" /\ e.id # st.event.id)
                            => ~Overlap(start, start + Duration, e.start, e.finish)
       /\ NoCallFailed(st)

\* C21: Move's conflict check ignores the appointment being moved: when the
\* only event that overlaps the new bookable window is the moved appointment
\* itself, Move is approved and its last remote call is the update
MoveIgnoresOwnWindow ==
    \A p \in Procs :
        MoveOntoOwnWindow(p)
        => /\ proc[p].result.status = "approved"
           /\ LastCall(proc[p]).kind = "update"
           /\ \E e \in cal : e.id = proc[p].event.id

\* the 10:00 appointment moved to 10:30, a window that overlaps its own
MovedByHalfAnHour ==
    \E p \in Procs :
        /\ MoveOntoOwnWindow(p)
        /\ proc[p].time = HM(10, 30)
        /\ proc[p].event.start = RomeInstant(IsoDate(Fri), HM(10, 0))
        /\ proc[p].result.status = "approved"

\* a first call of check_availability, insert_appointment (all fields given)
\* or move_appointment for a (date, time) that is not bookable
FirstCallNotBookable(p) ==
    /\ proc[p].op \in {"check", "insert", "move"}
    /\ ~proc[p].conf.present
    /\ proc[p].op = "insert" => BlankFieldsOf(proc[p]) = <<>>
    /\ ~is_it_in_work_hours(proc[p].date, proc[p].time)

\* C22: the policy gate precedes all remote access: check_availability,
\* insert_appointment and move_appointment called for a (date, time) that is
\* not bookable return the policy rejection without having issued any remote
\* query
GateBeforeRemoteAccess ==
    \A p \in Procs :
        FirstCallNotBookable(p)
        => /\ proc[p].calls = <<>>
           /\ proc[p].pc = "done"
           /\ proc[p].result.status = "rejected"
           /\ proc[p].result.message = "outside_hours"

\* minutes after midnight at which a time of day starts
MinuteOfDay(time) == time.hour * 60 + time.minute

SlotsReturned(p) ==
    /\ proc[p].op = "slots" /\ proc[p].pc = "done"
    /\ proc[p].result.status = "approved"

\* the events with a start time that return_available_slots was given
TimedListed(p) ==
    {proc[p].events[i] : i \in {j \in 1..Len(proc[p].events) :
                                   ~proc[p].events[j].allDay}}

\* the sequence s holds the element x
InSeq(x, s) == \E i \in 1..Len(s) : s[i] = x

\* some minute lies in both half-open windows
ShareAMinute(aStart, aEnd, bStart, bEnd) ==
    \E t \in aStart..(aEnd - 1) : bStart <= t /\ t < bEnd

\* C24: the overlap test of slot occupancy is symmetric in its two windows,
\* and back-to-back windows never overlap: an event that ends exactly at a
\* slot's start, or starts exactly at its end, does not make the slot occupied
\* (a slot is left out of the list only when an event shares a minute with it)
OverlapSymmetricBackToBackFree ==
    \A p \in Procs :
        SlotsReturned(p) =>
            \A i \in 1..Len(HourlyStarts) :
                LET s == RomeInstant(proc[p].date, HourlyStarts[i])
                    f == s + Duration
                IN /\ \A e \in TimedListed(p) :
                         /\ Overlap(s, f, e.start, e.finish)
                              = Overlap(e.start, e.finish, s, f)
                         /\ (e.finish = s \/ e.start = f)
                              => ~Overlap(s, f, e.start, e.finish)
                   /\ InSeq(HourlyStarts[i], proc[p].result.available_slots)
                      <=> ~\E e \in TimedListed(p) :
                              ShareAMinute(s, f, e.start, e.finish)

\* the slots of a day with appointments at 10:00 and at 12:30: 9:00 and 11:00
\* touch the first one and are listed, 12:00 and 13:00 are not
SlotsAroundAppointmentsListed ==
    \E p \in Procs :
        /\ SlotsReturned(p)
        /\ TimedListed(p) = {ApptA, ApptHalfPast}
        /\ proc[p].result.available_slots =
               <<HM(9, 0), HM(11, 0), HM(14, 0), HM(15, 0), HM(16, 0)>>

\* q is a first call of check_availability for an hourly slot that has
\* returned, its remote calls having succeeded
HourlyCheckReturned(q) ==
    /\ FirstCheckDone(q)
    /\ InSeq(proc[q].time, HourlyStarts)
    /\ NoCallFailed(proc[q])

\* C29: return_available_slots agrees with check_availability: for every
\* calendar state and every hourly slot 09:00..16:00 of a bookable date, the
\* slot is listed as available if and only if a first call of
\* check_availability for that date and time returns 'approved', all-day
\* events in the calendar included
SlotsAgreeWithCheck ==
    \A p, q \in Procs :
        (/\ SlotsReturned(p) /\ HourlyCheckReturned(q)
         /\ parse_date_to_datetime(proc[p].date) = parse_date_to_datetime(proc[q].date))
        => (InSeq(proc[q].time, proc[p].result.available_slots)
            <=> proc[q].result.status = "approved")

\* the normalized phone of an appointment: the stored one, or for a legacy
\* record the normalized form of the phone written in its description
NormalizedPhoneOf(e) ==
    IF e.phone_norm # None THEN e.phone_norm
    ELSE normalize_phone(PhoneWrittenIn(e))

\* C25: identity matching is equality of normalized forms: Cancel or Move
\* called with a phone alone locates an appointment only if the normalized
\* supplied phone equals the appointment's normalized phone; a supplied phone
\* that is a proper substring of the appointment's digits never matches
PhoneMatchIsEqualityOfNormalForms ==
    \A p \in Procs :
        (/\ Listed(p)
         /\ proc[p].email = None /\ proc[p].phone # None
         /\ proc[p].event.id # 0)
        => normalize_phone(proc[p].phone) = NormalizedPhoneOf(proc[p].event)

\* C26: stored normalized metadata takes precedence over the legacy fields:
\* when the located appointment carries a stored normalized phone (email), a
\* call that supplied only a phone (email) located it because that stored
\* value equals the normalized supplied one; a stored value that differs
\* yields no match
StoredMetadataDecidesMatch ==
    \A p \in Procs :
        (Listed(p) /\ proc[p].event.id # 0)
        => /\ (/\ proc[p].email = None /\ proc[p].phone # None
               /\ proc[p].event.phone_norm # None)
              => proc[p].event.phone_norm = normalize_phone(proc[p].phone)
           /\ (/\ proc[p].phone = None /\ proc[p].email # None
               /\ proc[p].event.email_norm # None)
              => proc[p].event.email_norm = normalize_email(proc[p].email)

\* C27: parse_date_expression is idempotent on its own output: parsing the
\* ISO date a successful call returned succeeds and returns that same date,
\* whatever the day on which it is parsed again
ParseIsIdempotentOnItsOutput ==
    \A p \in Procs :
        (proc[p].op = "parse_again" /\ proc[p].pc = "done")
        => /\ proc[p].expression.text.fmt = "iso"
           /\ proc[p].result.status = "success"
           /\ proc[p].result.date = proc[p].expression.text

\* a returned 2025-12-12 parsed again, the reference day being Sunday
ReturnedDateParsedAgainOnSunday ==
    \E p \in Procs :
        /\ proc[p].op = "parse_again" /\ proc[p].pc = "done"
        /\ proc[p].result.date = IsoDate(DayOf(12, 12))
        /\ proc[p].today = 6

\* a call for a weekday name, with or without "next", that has returned
WeekdayParsed(p, next) ==
    /\ proc[p].op = "parse_date_expression" /\ proc[p].pc = "done"
    /\ proc[p].expression.kind = "weekday"
    /\ proc[p].expression.next = next

\* the Monday of the calendar week of day d
WeekStart(d) == d - Weekday(d)

\* C28: a bare weekday name resolves to the date 0..6 days after the reference
\* that falls on that weekday (the reference day itself when it is that
\* weekday); "next <weekday>" resolves to a date that falls on that weekday,
\* is at least 7 days after the reference and lies in the calendar week that
\* follows the reference's week
WeekdayResolution ==
    \A p \in Procs :
        LET today == proc[p].today
            target == parse_date_to_datetime(proc[p].result.date)
            w == proc[p].expression.weekday
        IN /\ WeekdayParsed(p, FALSE)
              => /\ proc[p].result.status = "success"
                 /\ Weekday(target) = w
                 /\ target - today \in 0..6
           /\ WeekdayParsed(p, TRUE)
              => /\ proc[p].result.status = "success"
                 /\ Weekday(target) = w
                 /\ target - today >= 7
                 /\ WeekStart(target) = WeekStart(today) + 7

\* the remote calls that change the calendar
Mutating == {"insert", "delete", "update"}

\* the mutating call each tool may issue
MutationOf(op) ==
    CASE op = "insert" -> {"insert"}
      [] op = "delete" -> {"delete"}
      [] op = "move" -> {"update"}
      [] OTHER -> {}

\* in the call log of invocation st a mutating call is the tool's own, and no
\* call follows it
MutationIsLast(st) ==
    \A i \in 1..Len(st.calls) :
        st.calls[i].kind \in Mutating
        => /\ st.calls[i].kind \in MutationOf(st.op)
           /\ i = Len(st.calls)
           /\ st.pc = "done"

\* C30: within one invocation the remote calls are issued one after another
\* (a step issues at most one call, after the calls issued before it); Insert,
\* Cancel and Move issue at most one mutating call, which is the last remote
\* call of the invocation; check_availability, find_next_available_slot and
\* return_available_slots issue no mutating call
OneCallAtATimeMutationLast ==
    [][\A p \in Procs :
          /\ proc'[p].op = proc[p].op /\ proc[p].pc # "idle"
             => \/ proc'[p].calls = proc[p].calls
                \/ /\ Len(proc'[p].calls) = Len(proc[p].calls) + 1
                   /\ SubSeq(proc'[p].calls, 1, Len(proc[p].calls)) = proc[p].calls
          /\ MutationIsLast(proc'[p])]_vars

\* a finished Move that listed the upcoming events, queried the new window
\* and then updated the appointment
MoveIssuedThreeCalls ==
    \E p \in Procs :
        /\ proc[p].op = "move" /\ proc[p].pc = "done"
        /\ Len(proc[p].calls) = 3
        /\ proc[p].calls[1].kind = "list_upcoming"
        /\ proc[p].calls[2].kind = "list"
        /\ proc[p].calls[3].kind = "update" /\ proc[p].calls[3].n = 1

\* minutes from the midnight that starts the requested date to the start of
\* the k-th probed window
MinutesToProbe(st, k) == MinuteOfDay(st.time) + (k - 1) * 60

\* C31: when find_next_available_slot returns 'approved' with
\* attempts_checked = k, then 1 <= k <= max_attempts, exactly k queries were
\* made, the windows probed before the k-th returned events, and the returned
\* date and time are the start plus k-1 hours: the date is the next calendar
\* day when the offset passes midnight, and the window is returned whether or
\* not it lies in business hours
SearchReturnsStartPlusHours ==
    \A p \in Procs :
        (IsSearch(p) /\ proc[p].pc = "done" /\ proc[p].result.status = "approved")
        => LET st == proc[p]
               k == st.result.attempts_checked
               m == MinutesToProbe(st, k)
           IN /\ 1 <= k /\ k <= st.max_attempts
              /\ Len(st.calls) = k
              /\ \A i \in 1..(k - 1) : st.calls[i].n > 0
              /\ st.calls[k].n = 0
              /\ st.result.message_date
                     = IsoDate(parse_date_to_datetime(st.date) + m \div MinutesPerDay)
              /\ st.result.message_time
                     = HM((m \div 60) % 24, st.time.minute)

\* a search from Friday 22:00 that returned Saturday 00:00 at its third probe
SearchPassedMidnight ==
    \E p \in Procs :
        /\ IsSearch(p) /\ proc[p].pc = "done"
        /\ proc[p].date = IsoDate(Fri) /\ proc[p].time = HM(22, 0)
        /\ proc[p].result.status = "approved"
        /\ proc[p].result.attempts_checked = 3
        /\ proc[p].result.message_date = IsoDate(Sat)
        /\ proc[p].result.message_time = HM(0, 0)

\* the window a resumed Move was offered
OfferedInstant(st) ==
    InstantOf(st.conf.payload.alternative_date, st.conf.payload.alternative_time)

\* C32: a move_appointment resumed with confirmed=true works on the window and
\* the email/phone of the offer payload, issues its update only right after a
\* conflict query for the offered window, raises no further confirmation
\* request and never returns 'pending'; when it returns while another event
\* lies in the offered window the result is 'rejected' and no update was issued
ResumedMoveRechecksNeverPends ==
    \A p \in Procs :
        (proc[p].op = "move" /\ proc[p].conf.present /\ proc[p].conf.confirmed)
        => LET st == proc[p]
               pl == st.conf.payload
               alt == OfferedInstant(st)
           IN /\ st.date = pl.alternative_date /\ st.time = pl.alternative_time
              /\ st.email = pl.email /\ st.phone = pl.phone
              /\ st.requests = <<>>
              /\ st.pc = "done" => st.result.status # "pending"
              /\ \A i \in 1..Len(st.calls) :
                    st.calls[i].kind = "update"
                    => /\ i > 1
                       /\ st.calls[i - 1] \in
                              {Call("list", alt, alt + Duration, n) : n \in 0..MaxEvents + 1}
              /\ (st.pc = "done"
                  /\ \E e \in EventsInRange(alt, alt + Duration) : e.id # st.event.id)
                 => /\ st.result.status = "rejected"
                    /\ "update" \notin KindsOf(st)

\* the offer of 11:00 was confirmed after ApptA had been moved there: the
\* resumed Move queried the window and returned 'rejected' without an update
ResumedMoveFoundOfferTaken ==
    \E p \in Procs :
        /\ proc[p].op = "move" /\ proc[p].pc = "done"
        /\ proc[p].conf.present /\ proc[p].conf.confirmed
        /\ proc[p].conf.payload = OfferToB.payload
        /\ ApptALater \in cal
        /\ proc[p].event = ApptB
        /\ Call("list", OfferedInstant(proc[p]), OfferedInstant(proc[p]) + Duration, 1)
               \in {proc[p].calls[i] : i \in 1..Len(proc[p].calls)}
        /\ proc[p].result.status = "rejected"
        /\ proc[p].result.message = "occupied_next_available"
        /\ ApptB \in cal

\* the reply, lower-cased and stripped, is in the yes-set or in the no-set
Recognized(m) == Strip(Lower(m)) \in (YesSet \cup NoSet)

\* C33: while an approval is pending, a message that is neither in the yes-set
\* nor in the no-set starts no run of the tool and leaves the pending approval
\* in place (the handler returns with the re-prompt); a resumed run of a tool
\* starts only for a recognized reply, on the stored pending approval, with
\* confirmed = (the reply is in the yes-set)
ReplyResumesOnlyWhenRecognized ==
    [][\A q \in Procs :
          /\ (proc[q].pc = "idle" /\ proc'[q].op = "handle_message")
             => LET m == proc'[q].reply
                    pa == proc'[q].pending_approval
                IN /\ pa \in offers
                   /\ offers' = offers
                   /\ \A p \in Procs \ {q} : proc'[p] = proc[p]
                   /\ Recognized(m) => proc'[q].pc = "hm_run"
                   /\ ~Recognized(m)
                      => /\ proc'[q].pc = "done"
                         /\ proc'[q].result.message = "please_respond_yes_or_no"
                         /\ proc'[q].calls = <<>>
          /\ (proc[q].pc = "idle" /\ proc'[q].conf.present)
             => \E h \in Procs :
                   /\ proc[h].op = "handle_message" /\ proc[h].pc = "hm_run"
                   /\ Recognized(proc[h].reply)
                   /\ proc[h].pending_approval \in offers
                   /\ proc'[q].op = proc[h].pending_approval.tool
                   /\ proc'[q].conf.payload = proc[h].pending_approval.payload
                   /\ proc'[q].conf.confirmed
                          = (Strip(Lower(proc[h].reply)) \in YesSet)
    ]_vars

\* the reply 'yes!' to the pending offer was answered with the re-prompt: the
\* offer is still pending and no tool is running
UnclearReplyReprompted ==
    \E q \in Procs :
        /\ proc[q].op = "handle_message" /\ proc[q].pc = "done"
        /\ proc[q].reply = <<"y", "e", "s", "!">>
        /\ proc[q].result.message = "please_respond_yes_or_no"
        /\ proc[q].pending_approval = OfferToB
        /\ OfferToB \in offers
        /\ \A p \in Procs \ {q} : proc[p] = IdleProc

\* an upcoming appointment that insert_appointment wrote for the identity the
\* Cancel invocation st names by its email alone or by its phone alone
InsertedFor(e, st) ==
    /\ e.finish > now
    /\ e.email_norm # None /\ e.phone_norm # None
    /\ \/ st.phone = None /\ e.email_norm = normalize_email(st.email)
       \/ st.email = None /\ e.phone_norm = normalize_phone(st.phone)

\* C34: Insert/Cancel round trip.  While an upcoming appointment written by
\* insert_appointment for email E and phone P exists, a delete_appointment
\* that supplies only E or only P, in any spelling with the same normalized
\* form, and whose remote calls succeed, returns 'approved', and the
\* appointment it deleted is one of that identity
InsertThenCancelApproved ==
    \A p \in Procs :
        (/\ proc[p].op = "delete" /\ proc[p].pc = "done"
         /\ NoCallFailed(proc[p]))
        => /\ (\E e \in cal : InsertedFor(e, proc[p]))
              => proc[p].result.status = "approved"
           /\ proc[p].result.status = "approved"
              => /\ proc[p].event \notin cal
                 /\ InsertedFor(proc[p].event, proc[p])

\* C35: insert_appointment creates its event in the calendar it queried for
\* conflicts, in every configuration: once an Insert has returned 'approved',
\* the event it created is among the events a conflict query for its window
\* returns, and is among the upcoming events Cancel and Move list
InsertCreatesWhereItQueries ==
    \A p \in Procs :
        (/\ proc[p].op = "insert" /\ proc[p].pc = "done"
         /\ proc[p].result.status = "approved")
        => LET start == InstantOf(proc[p].date, proc[p].time)
           IN /\ \E e \in EventsInRange(start, start + Duration) :
                    e.id = proc[p].result.order_id
              /\ \E e \in EventsUpcoming : e.id = proc[p].result.order_id

\* C36: the window move_appointment writes is the window it conflict-checked:
\* the start and end instants of every update call are the timeMin and timeMax
\* of the conflict query that precedes it, whatever zone get_local_timezone
\* returns
MoveWritesCheckedWindow ==
    \A p \in Procs :
        proc[p].op = "move"
        => \A i \in 1..Len(proc[p].calls) :
              proc[p].calls[i].kind = "update"
              => /\ i > 1
                 /\ proc[p].calls[i - 1].kind = "list"
                 /\ proc[p].calls[i].a = proc[p].calls[i - 1].a
                 /\ proc[p].calls[i].b = proc[p].calls[i - 1].b

\* the business-calendar policy for a start: Monday to Friday, not one of the
\* fixed holidays, hour from 9 to 16
PolicyStart(date, time) ==
    /\ Weekday(date.day) < 5
    /\ <<MonthOf(date.day), DayOfMonth(date.day)>>
           \notin {<<12, 8>>, <<12, 24>>, <<12, 25>>, <<12, 26>>, <<1, 1>>}
    /\ 9 <= time.hour /\ time.hour < 17

\* C37: every window check_availability reports with status 'approved'
\* satisfies the business-calendar policy, on the first call and on the resume
\* with confirmed = true alike
CheckApprovesOnlyPolicyWindows ==
    \A p \in Procs :
        (/\ proc[p].op = "check" /\ proc[p].pc = "done"
         /\ proc[p].result.status = "approved")
        => PolicyStart(proc[p].result.requested_date, proc[p].result.requested_time)

\* an event other than the one the Move of st is moving lies in the hour that
\* starts at t
TakenByAnother(st, t) ==
    \E e \in EventsInRange(t, t + Duration) : e.id # st.event.id

\* C38: when the new window of a Move is occupied by another event, the
\* alternative it offers is the earliest of the probed windows (the new window
\* plus 0, 1, 2, ... hours) that is free of events other than the appointment
\* being moved: a window that only the moved appointment occupies is not
\* skipped
MoveOffersEarliestFreeOfOthers ==
    \A p \in Procs :
        (/\ proc[p].op = "move" /\ proc[p].pc = "done"
         /\ proc[p].result.status = "pending")
        => LET st == proc[p]
               start == InstantOf(st.date, st.time)
               alt == InstantOf(st.result.message_date, st.result.message_time)
           IN \E k \in 0..(DefaultMaxAttempts - 1) :
                 /\ alt = start + k * 60
                 /\ ~TakenByAnother(st, alt)
                 /\ \A j \in 0..(k - 1) : TakenByAnother(st, start + j * 60)
====
